---- MODULE Spec2Model ----
(***************************************************************************)
(* ClearLine rewrite pipeline (src/src/lib/rewriteEngine.ts).              *)
(*                                                                         *)
(* Texts are TLA+ strings; a character is a string of length one.  The     *)
(* regular expressions of the source are modelled by operators that scan   *)
(* the characters the way the JavaScript regex engine does (leftmost       *)
(* match, greedy quantifiers with backtracking to \b, lazy .+?).           *)
(***************************************************************************)
EXTENDS Integers, Sequences, FiniteSets, TLC

\* ------------------------------------------------------------ characters

UpperLetters == "ABCDEFGHIJKLMNOPQRSTUVWXYZ"
LowerLetters == "abcdefghijklmnopqrstuvwxyz"
DigitChars == "0123456789"

\* U+0060; a TLA+ string literal cannot hold that character, "~" stands for it.
Backtick == "~"

\* s.slice(a - 1, b): the characters a..b of s, clipped to the string
Sub(s, a, b) ==
  IF a > b \/ a > Len(s) \/ b < 1 THEN ""
  ELSE SubSeq(s, IF a < 1 THEN 1 ELSE a, IF b > Len(s) THEN Len(s) ELSE b)

\* s.charAt(i - 1): "" outside the string
At(s, i) == IF i >= 1 /\ i <= Len(s) THEN SubSeq(s, i, i) ELSE ""

CharSet(s) == {At(s, i) : i \in 1..Len(s)}

UpperSet == CharSet(UpperLetters)
LowerSet == CharSet(LowerLetters)
LetterSet == UpperSet \cup LowerSet
\* \w of a JavaScript regex: [A-Za-z0-9_]
WordSet == LetterSet \cup CharSet(DigitChars) \cup {"_"}
\* \s of a JavaScript regex, restricted to the ASCII white space
SpaceSet == {" ", "\t", "\n", "\r"}
\* the line terminators "." does not match
LineTerminatorSet == {"\n", "\r"}
\* [,.;:!?]
PunctSet == {",", ".", ";", ":", "!", "?"}
\* [.!?]
TerminatorSet == {".", "!", "?"}

IsSpace(c) == c \in SpaceSet
IsWordChar(c) == c \in WordSet
IsLetter(c) == c \in LetterSet
IsPunct(c) == c \in PunctSet
IsTerminator(c) == c \in TerminatorSet

UpperToLower ==
  [c \in UpperSet |->
     At(LowerLetters, CHOOSE i \in 1..26 : At(UpperLetters, i) = c)]
LowerToUpper ==
  [c \in LowerSet |->
     At(UpperLetters, CHOOSE i \in 1..26 : At(LowerLetters, i) = c)]

toLowerChar(c) == IF c \in UpperSet THEN UpperToLower[c] ELSE c
toUpperChar(c) == IF c \in LowerSet THEN LowerToUpper[c] ELSE c

\* pieces[lo] \o ... \o pieces[hi], split in halves to keep the evaluation shallow
RECURSIVE concatRange(_, _, _)
concatRange(pieces, lo, hi) ==
  IF lo > hi THEN ""
  ELSE IF lo = hi THEN pieces[lo]
  ELSE concatRange(pieces, lo, (lo + hi) \div 2)
         \o concatRange(pieces, (lo + hi) \div 2 + 1, hi)

Concat(pieces) == concatRange(pieces, 1, Len(pieces))

\* the least element of a non-empty set of numbers, and the greatest
Min(S) == CHOOSE x \in S : \A y \in S : x <= y
Max(S) == CHOOSE x \in S : \A y \in S : y <= x

\* String.prototype.toLowerCase / toUpperCase
toLowerCase(s) == Concat([i \in 1..Len(s) |-> toLowerChar(At(s, i))])
toUpperCase(s) == Concat([i \in 1..Len(s) |-> toUpperChar(At(s, i))])

\* String.prototype.slice(from) with a 1-based first index
Rest(s, i) == Sub(s, i, Len(s))

\* String.prototype.trim
trim(s) ==
  LET idx == {i \in 1..Len(s) : ~IsSpace(At(s, i))}
  IN IF idx = {} THEN "" ELSE Sub(s, Min(idx), Max(idx))

\* String.prototype.includes
includes(s, sub) ==
  \E i \in 1..(Len(s) - Len(sub) + 1) : SubSeq(s, i, i + Len(sub) - 1) = sub

\* \b between the characters i and i+1 of s (0 <= i <= Len(s)): exactly one
\* of the two sides is a word character; outside the string counts as non-word.
WordBoundary(s, i) ==
  (i >= 1 /\ IsWordChar(At(s, i))) # (i < Len(s) /\ IsWordChar(At(s, i + 1)))

\* Array.prototype.join
join(items, sep) ==
  Concat([i \in 1..Len(items) |-> IF i = 1 THEN items[i] ELSE sep \o items[i]])

\* the last index of the maximal run of characters of class cls that starts
\* at i (i - 1 when the character at i is not of the class)
RunEnd(s, i, cls) ==
  (CHOOSE j \in i..(Len(s) + 1) :
     At(s, j) \notin cls /\ \A k \in i..(j - 1) : At(s, k) \in cls) - 1

\* the same for the characters outside cls
RunEndNot(s, i, cls) ==
  (CHOOSE j \in i..(Len(s) + 1) :
     (j > Len(s) \/ At(s, j) \in cls) /\ \A k \in i..(j - 1) : At(s, k) \notin cls) - 1

\* ------------------------------------------------- segmentation, spacing

\* text.replace(/\r\n/g, "\n"): every "\r" that a "\n" follows is dropped
replaceCRLF(s) ==
  Concat([i \in 1..Len(s) |->
            IF At(s, i) = "\r" /\ At(s, i + 1) = "\n" THEN "" ELSE At(s, i)])

\* s.split(/\n{2,}/) from character i on
RECURSIVE splitOnBlankLines(_, _)
splitOnBlankLines(s, i) ==
  LET seps == {j \in i..Len(s) : At(s, j) = "\n" /\ At(s, j + 1) = "\n"}
  IN IF seps = {} THEN << Rest(s, i) >>
     ELSE << Sub(s, i, Min(seps) - 1) >>
          \o splitOnBlankLines(s, RunEnd(s, Min(seps), {"\n"}) + 1)

splitParagraphs(text) == splitOnBlankLines(replaceCRLF(text), 1)

\* the matches of /[^.!?]+(?:[.!?]+|$)/g in s from character i on
RECURSIVE matchSentences(_, _)
matchSentences(s, i) ==
  LET starts == {j \in i..Len(s) : ~IsTerminator(At(s, j))}
  IN IF starts = {} THEN <<>>
     ELSE LET j == RunEndNot(s, Min(starts), TerminatorSet)
              k == RunEnd(s, j + 1, TerminatorSet)
          IN << Sub(s, Min(starts), k) >> \o matchSentences(s, k + 1)

NonEmpty(s) == s # ""

splitSentences(text) ==
  LET m == matchSentences(text, 1)
      matches == IF m = <<>> THEN <<text>> ELSE m
  IN SelectSeq([i \in 1..Len(matches) |-> trim(matches[i])], NonEmpty)

\* s.replace(/[cls]+/g, " ")
collapseRuns(s, cls) ==
  Concat([i \in 1..Len(s) |->
            IF At(s, i) \notin cls THEN At(s, i)
            ELSE IF At(s, i - 1) \in cls THEN "" ELSE " "])

\* s.replace(/\s+([,.;:!?])/g, "$1"): a white-space character goes when the
\* run it stands in ends before one of the marks
dropSpaceBeforePunct(s) ==
  Concat([i \in 1..Len(s) |->
            IF IsSpace(At(s, i)) /\ IsPunct(At(s, RunEnd(s, i, SpaceSet) + 1))
            THEN "" ELSE At(s, i)])

\* s.replace(/([,.;:!?])([A-Za-z])/g, "$1 $2")
addSpaceAfterPunct(s) ==
  Concat([i \in 1..Len(s) |->
            IF IsPunct(At(s, i - 1)) /\ IsLetter(At(s, i))
            THEN " " \o At(s, i) ELSE At(s, i)])

normaliseSpacing(text) ==
  trim(collapseRuns(
         addSpaceAfterPunct(
           dropSpaceBeforePunct(collapseRuns(text, {" ", "\t"}))),
         SpaceSet))

\* ----------------------------------------------------------- the tables

\* .slice(0, 12) of the suggestions
SuggestionCap == 12
\* .slice(0, 3) of the active style examples
StyleAnchorLimit == 3
\* words > 22
StyleWordFloor == 22

vocabularyMap ==
  << <<"lack of clarity", "unclear">>,
     <<"not consistently", "inconsistently">>,
     <<"at this stage", "based on current information">>,
     <<"in order to", "to">>,
     <<"due to the fact that", "because">>,
     <<"for the purpose of", "to">>,
     <<"with regards to", "regarding">>,
     <<"at the present time", "currently">> >>

fillerOpeners ==
  << "We note that", "For awareness", "It should be noted",
     "It is important to note", "Please be advised", "For your information" >>

ukToUs ==
  << <<"unauthorised", "unauthorized">>, <<"authorised", "authorized">>,
     <<"authorisation", "authorization">>, <<"authorisations", "authorizations">>,
     <<"organisation", "organization">>, <<"organisations", "organizations">>,
     <<"organise", "organize">>, <<"organised", "organized">>,
     <<"organising", "organizing">>, <<"prioritise", "prioritize">>,
     <<"prioritised", "prioritized">>, <<"prioritising", "prioritizing">>,
     <<"standardise", "standardize">>, <<"standardised", "standardized">>,
     <<"standardising", "standardizing">>, <<"emphasise", "emphasize">>,
     <<"emphasised", "emphasized">>, <<"emphasising", "emphasizing">>,
     <<"analyse", "analyze">>, <<"analysed", "analyzed">>,
     <<"analysing", "analyzing">>, <<"behaviour", "behavior">>,
     <<"behaviours", "behaviors">>, <<"labour", "labor">>,
     <<"defence", "defense">>, <<"catalogue", "catalog">>,
     <<"catalogues", "catalogs">>, <<"modelling", "modeling">>,
     <<"modelled", "modeled">>, <<"programme", "program">>,
     <<"programmes", "programs">> >>

\* Object.fromEntries(Object.entries(ukToUs).map(([uk, us]) => [us, uk])): a
\* later entry with the same US form would overwrite an earlier one and keep
\* the place of the first.
usToUk ==
  LET firstOf(us) == CHOOSE i \in 1..Len(ukToUs) :
                       ukToUs[i][2] = us /\ \A j \in 1..(i - 1) : ukToUs[j][2] # us
      lastOf(us) == CHOOSE i \in 1..Len(ukToUs) :
                      ukToUs[i][2] = us /\ \A j \in (i + 1)..Len(ukToUs) : ukToUs[j][2] # us
      firsts == SelectSeq([i \in 1..Len(ukToUs) |-> i],
                          LAMBDA i : firstOf(ukToUs[i][2]) = i)
  IN [k \in 1..Len(firsts) |->
        <<ukToUs[firsts[k]][2], ukToUs[lastOf(ukToUs[firsts[k]][2])][1]>>]

\* ------------------------------------------------- filler, vocabulary

\* /^<filler>\s+/i tested on the sentence
fillerMatches(sentence, filler) ==
  /\ Len(sentence) > Len(filler)
  /\ toLowerCase(Sub(sentence, 1, Len(filler))) = toLowerCase(filler)
  /\ IsSpace(At(sentence, Len(filler) + 1))

stripFillerOpener(sentence) ==
  LET hits == {k \in 1..Len(fillerOpeners) : fillerMatches(sentence, fillerOpeners[k])}
      filler == fillerOpeners[Min(hits)]
  IN IF hits = {} THEN [changed |-> FALSE, value |-> sentence, removed |-> ""]
     ELSE [changed |-> TRUE,
           value |-> Rest(sentence, RunEnd(sentence, Len(filler) + 1, SpaceSet) + 1),
           removed |-> filler]

\* s.replace(new RegExp(from, "gi"), to) from character i on, from in lower
\* case and free of regex operators; lower is s.toLowerCase()
RECURSIVE replaceAllCI(_, _, _, _, _)
replaceAllCI(s, lower, from, to, i) ==
  LET hits == {j \in i..Len(s) : Sub(lower, j, j + Len(from) - 1) = from}
  IN IF hits = {} THEN Rest(s, i)
     ELSE Sub(s, i, Min(hits) - 1) \o to
            \o replaceAllCI(s, lower, from, to, Min(hits) + Len(from))

\* the loop of replaceVocabulary over the entries k.. of vocabularyMap; lower
\* is out.toLowerCase()
RECURSIVE vocabularyLoop(_, _, _, _)
vocabularyLoop(out, lower, changes, k) ==
  IF k > Len(vocabularyMap) THEN [value |-> out, changes |-> changes]
  ELSE LET from == vocabularyMap[k][1]
           to == vocabularyMap[k][2]
           replaced == replaceAllCI(out, lower, from, to, 1)
       IN IF includes(lower, from)
          THEN vocabularyLoop(replaced, toLowerCase(replaced),
                 Append(changes, "Replaced \"" \o from \o "\" with \"" \o to \o "\""),
                 k + 1)
          ELSE vocabularyLoop(out, lower, changes, k + 1)

replaceVocabulary(sentence) ==
  LET r == vocabularyLoop(sentence, toLowerCase(sentence), <<>>, 1)
  IN [changed |-> r.value # sentence, value |-> r.value, changes |-> r.changes]

\* ------------------------------------------------------ protected spans

\* The greedy run lo..hi of a pattern that ends in \b gives characters back
\* until a word boundary follows: the last j in lo..hi with \b after
\* character j, 0 when there is none.
BoundaryBackoff(s, lo, hi) ==
  LET last(ends) == IF ends = {} THEN 0 ELSE Max(ends)
  IN last({j \in lo..hi : WordBoundary(s, j)})

StartsWithAt(s, i, lit) == Sub(s, i, i + Len(lit) - 1) = lit

\* [^\s]+\b from character p on
NonSpaceRun(s, p) ==
  IF p > Len(s) \/ IsSpace(At(s, p)) THEN 0
  ELSE BoundaryBackoff(s, p, RunEndNot(s, p, SpaceSet))

\* (\bhttps?:\/\/\S+\b)
matchHttp(s, i) ==
  IF At(s, i) # "h" \/ ~WordBoundary(s, i - 1) THEN 0
  ELSE IF StartsWithAt(s, i, "https://") THEN NonSpaceRun(s, i + 8)
  ELSE IF StartsWithAt(s, i, "http://") THEN NonSpaceRun(s, i + 7)
  ELSE 0

\* (\bwww\.\S+\b)
matchWww(s, i) ==
  IF At(s, i) = "w" /\ WordBoundary(s, i - 1) /\ StartsWithAt(s, i, "www.")
  THEN NonSpaceRun(s, i + 4) ELSE 0

\* (\b[\w.+-]+@[\w-]+\.[\w.-]+\b)
matchEmail(s, i) ==
  LET tld(d, hi) == IF hi >= d + 2 THEN BoundaryBackoff(s, d + 2, hi) ELSE 0
      domain(k, d) ==
        IF d >= k + 2 /\ At(s, d + 1) = "."
        THEN tld(d, RunEnd(s, d + 2, WordSet \cup {".", "-"})) ELSE 0
      local(k) ==
        IF k >= i /\ At(s, k + 1) = "@"
        THEN domain(k, RunEnd(s, k + 2, WordSet \cup {"-"})) ELSE 0
  IN IF WordBoundary(s, i - 1)
     THEN local(RunEnd(s, i, WordSet \cup {".", "+", "-"})) ELSE 0

\* (`[^`]*`)
matchBacktick(s, i) ==
  LET first(close) == IF close = {} THEN 0 ELSE Min(close)
  IN IF At(s, i) = Backtick
     THEN first({j \in (i + 1)..Len(s) : At(s, j) = Backtick}) ELSE 0

\* (\b[A-Za-z]:\\[^\s]+\b)
matchDrivePath(s, i) ==
  IF /\ At(s, i + 1) = ":" /\ IsLetter(At(s, i)) /\ WordBoundary(s, i - 1)
     /\ At(s, i + 2) = "\\"
  THEN NonSpaceRun(s, i + 3) ELSE 0

\* (\b\/[^\s]+\b)
matchPosixPath(s, i) ==
  IF At(s, i) = "/" /\ WordBoundary(s, i - 1)
  THEN NonSpaceRun(s, i + 1) ELSE 0

\* the end of the match of the alternation at character i (the first
\* alternative that matches there), 0 when none matches
protectedEndAt(s, i) ==
  LET first(ends) == IF ends = <<>> THEN 0 ELSE ends[1]
  IN first(SelectSeq(<< matchHttp(s, i), matchWww(s, i), matchEmail(s, i),
                        matchBacktick(s, i), matchDrivePath(s, i),
                        matchPosixPath(s, i) >>,
                     LAMBDA e : e # 0))

\* the loop over input.matchAll(pattern): last is the end of the previous
\* match; the next match is the leftmost one after it
RECURSIVE protectScan(_, _)
protectScan(input, last) ==
  LET text(lo, hi) ==
        IF lo <= hi THEN << [kind |-> "text", value |-> Sub(input, lo, hi)] >>
        ELSE <<>>
      match(i, e) ==
        text(last + 1, i - 1)
          \o << [kind |-> "protected", value |-> Sub(input, i, e)] >>
          \o protectScan(input, e)
      next(starts) ==
        IF starts = {} THEN text(last + 1, Len(input))
        ELSE match(Min(starts), protectedEndAt(input, Min(starts)))
  IN next({i \in (last + 1)..Len(input) : protectedEndAt(input, i) # 0})

protectTokens(input) == protectScan(input, 0)

\* ------------------------------------------------------------- spelling

\* matchCase gone wrong: the replacement is written as the dictionary has it,
\* whatever the case of the word it replaces (C9 tells the two apart)
matchCaseAsListed(from, to) == to

matchCase(from, to) ==
  IF toUpperCase(from) = from THEN toUpperCase(to)
  ELSE IF toUpperChar(At(from, 1)) = At(from, 1)
       THEN toUpperChar(At(to, 1)) \o Rest(to, 2)
       ELSE to

\* dedupe gone wrong: items are trimmed and the empty ones dropped, but an
\* item seen before is kept again (C10 tells the two apart)
dedupeKeepsRepeats(items) ==
  LET k == [i \in 1..Len(items) |-> trim(items[i])]
  IN SelectSeq(k, LAMBDA x : x # "")

\* an item is kept when its trimmed text is not empty and was not seen before
dedupe(items) ==
  LET k == [i \in 1..Len(items) |-> trim(items[i])]
      kept == SelectSeq([i \in 1..Len(items) |-> i],
                LAMBDA i : k[i] # "" /\ \A j \in 1..(i - 1) : k[j] # k[i])
  IN [n \in 1..Len(kept) |-> k[kept[n]]]

\* A dictionary term is made of word characters only, so /\b<term>\b/ matches
\* exactly the maximal runs of word characters that spell the term.  pieces(s, i)
\* cuts s from character i on into its maximal runs of word characters and of
\* other characters.
RECURSIVE pieces(_, _)
pieces(s, i) ==
  IF i > Len(s) THEN <<>>
  ELSE LET e == IF IsWordChar(At(s, i)) THEN RunEnd(s, i, WordSet)
                ELSE RunEndNot(s, i, WordSet)
       IN << Sub(s, i, e) >> \o pieces(s, e + 1)

\* new RegExp(`\\b${w}\\b`, "i").test(s), ps being the runs of s in lower case
wordOccurs(ps, w) == \E n \in 1..Len(ps) : ps[n] = w

\* s.replace(new RegExp(`\\b${from}\\b`, "gi"), (m) => matchCase(m, to)) on
\* the runs ps of s, lower being the same runs in lower case
replaceWordsCI(ps, lower, from, to) ==
  [n \in 1..Len(ps) |-> IF lower[n] = from THEN matchCase(ps[n], to) ELSE ps[n]]

\* the loop over Object.entries(map) for one text chunk, from entry k on; out
\* is kept as its runs ps, with the same runs in lower case
RECURSIVE spellChunk(_, _, _, _, _)
spellChunk(ps, lower, map, changes, k) ==
  IF k > Len(map) THEN [value |-> Concat(ps), changes |-> changes]
  ELSE LET from == map[k][1]
           to == map[k][2]
           replaced == replaceWordsCI(ps, lower, from, to)
       IN IF wordOccurs(lower, from)
          THEN spellChunk(replaced,
                 [n \in 1..Len(ps) |->
                    IF lower[n] = from THEN toLowerCase(replaced[n]) ELSE lower[n]],
                 map,
                 Append(changes,
                   "Standardised spelling: \"" \o from \o "\" -> \"" \o to \o "\""),
                 k + 1)
          ELSE spellChunk(ps, lower, map, changes, k + 1)

\* spellChunks gone wrong: the protected chunks are spelled like the text
\* chunks (C11 tells the two apart)
RECURSIVE spellChunksUnprotected(_, _, _, _)
spellChunksUnprotected(chunks, map, changes, c) ==
  LET before(value, r) == [value |-> value \o r.value, changes |-> r.changes]
      spelled(here) ==
        before(here.value, spellChunksUnprotected(chunks, map, here.changes, c + 1))
      runs(ps) ==
        spelled(spellChunk(ps, [n \in 1..Len(ps) |-> toLowerCase(ps[n])],
                           map, changes, 1))
  IN IF c > Len(chunks) THEN [value |-> "", changes |-> changes]
     ELSE runs(pieces(chunks[c].value, 1))

\* chunks.map(...) from chunk c on, with the changes collected so far
RECURSIVE spellChunks(_, _, _, _)
spellChunks(chunks, map, changes, c) ==
  LET before(value, r) == [value |-> value \o r.value, changes |-> r.changes]
      spelled(here) ==
        before(here.value, spellChunks(chunks, map, here.changes, c + 1))
      runs(ps) ==
        spelled(spellChunk(ps, [n \in 1..Len(ps) |-> toLowerCase(ps[n])],
                           map, changes, 1))
  IN IF c > Len(chunks) THEN [value |-> "", changes |-> changes]
     ELSE IF chunks[c].kind = "protected"
     THEN before(chunks[c].value, spellChunks(chunks, map, changes, c + 1))
     ELSE runs(pieces(chunks[c].value, 1))

standardiseSpelling(sentence, variant) ==
  LET result(r) ==
        [changed |-> r.changes # <<>>, value |-> r.value, changes |-> dedupe(r.changes)]
  IN result(spellChunks(protectTokens(sentence),
                        IF variant = "en-US" THEN ukToUs ELSE usToUk, <<>>, 1))

\* -------------------------------------------------- detection-only stages

MixedVariantMessage ==
  "Mixed UK/US spelling detected. Select one English variant for consistency."

\* detectMixedVariant gone wrong: a UK form alone raises the suggestion
\* (C8 tells the two apart)
detectMixedVariantUkOnly(text) ==
  LET lower == pieces(toLowerCase(text), 1)
      hasUk == \E k \in 1..Len(ukToUs) : wordOccurs(lower, ukToUs[k][1])
  IN IF hasUk THEN <<MixedVariantMessage>> ELSE <<>>

detectMixedVariant(text) ==
  LET lower == pieces(toLowerCase(text), 1)
      hasUk == \E k \in 1..Len(ukToUs) : wordOccurs(lower, ukToUs[k][1])
      hasUs == \E k \in 1..Len(ukToUs) : wordOccurs(lower, ukToUs[k][2])
  IN IF hasUk /\ hasUs THEN <<MixedVariantMessage>> ELSE <<>>

qualifiers ==
  << "may", "could", "might", "potentially", "appears to", "seems to",
     "generally", "possibly" >>

\* findQualifierHints gone wrong: one suggestion for each matched term
\* (C20 tells the two apart)
findQualifierHintsPerTerm(sentence) ==
  LET lower == toLowerCase(sentence)
      found == SelectSeq(qualifiers, LAMBDA q : includes(lower, q))
  IN [i \in 1..Len(found) |->
        "Qualification detected (" \o found[i]
          \o "). Audit-safe default is to keep it unless evidence supports a stronger statement."]

findQualifierHints(sentence) ==
  LET lower == toLowerCase(sentence)
      found == SelectSeq(qualifiers, LAMBDA q : includes(lower, q))
  IN IF Len(found) = 0 THEN <<>>
     ELSE << "Qualification detected (" \o join(found, ", ")
             \o "). Audit-safe default is to keep it unless evidence supports a stronger statement." >>

\* ------------------------------------------------------ passive -> active

participles ==
  << "completed", "implemented", "performed", "reviewed", "approved",
     "identified", "documented" >>

\* toBaseVerb gone wrong: the participle is returned as it is, which gives
\* "did not completed" (C4 tells the two apart)
toBaseVerbKeepsParticiple(pastParticiple) == pastParticiple

toBaseVerb(pastParticiple) ==
  CASE pastParticiple = "completed" -> "complete"
    [] pastParticiple = "implemented" -> "implement"
    [] pastParticiple = "performed" -> "perform"
    [] pastParticiple = "reviewed" -> "review"
    [] pastParticiple = "approved" -> "approve"
    [] pastParticiple = "identified" -> "identify"
    [] pastParticiple = "documented" -> "document"
    [] OTHER -> IF Sub(pastParticiple, Len(pastParticiple) - 1, Len(pastParticiple)) = "ed"
                THEN Sub(pastParticiple, 1, Len(pastParticiple) - 2)
                ELSE pastParticiple

HasLineTerminator(s) == \E i \in 1..Len(s) : At(s, i) \in LineTerminatorSet

\* The rest of a strict pattern after the subject s[1..k]:
\*   \s+(was|were)\s+[not\s+](participle)\b(.*)$     (flag i)
\* [ok, pp, tailFrom]: whether it matches from character k + 1 on, the
\* participle as written and the first character of the tail.  lower is
\* s.toLowerCase().
passiveRest(s, lower, k, negated) ==
  LET fail == [ok |-> FALSE, pp |-> "", tailFrom |-> 0]
      tail(d, e) ==
        IF ~IsWordChar(At(s, e)) /\ ~HasLineTerminator(Rest(s, e))
        THEN [ok |-> TRUE, pp |-> Sub(s, d, e - 1), tailFrom |-> e] ELSE fail
      pick(d, pps) ==
        IF pps = {} THEN fail ELSE tail(d, d + Len(participles[Min(pps)]))
      participle(d) ==
        pick(d, {n \in 1..Len(participles) : StartsWithAt(lower, d, participles[n])})
      negation(c) ==
        IF ~negated THEN participle(c)
        ELSE IF StartsWithAt(lower, c, "not") /\ IsSpace(At(s, c + 3))
        THEN participle(RunEnd(s, c + 3, SpaceSet) + 1) ELSE fail
      after(b) ==
        IF b # 0 /\ IsSpace(At(s, b)) THEN negation(RunEnd(s, b, SpaceSet) + 1)
        ELSE fail
      auxiliary(a) ==
        after(IF StartsWithAt(lower, a, "was") THEN a + 3
              ELSE IF StartsWithAt(lower, a, "were") THEN a + 4 ELSE 0)
  IN IF IsSpace(At(s, k + 1)) THEN auxiliary(RunEnd(s, k + 1, SpaceSet) + 1)
     ELSE fail

\* sentence.match(re) for a strict pattern: the lazy (.+?) takes the shortest
\* subject after which the rest matches.  [ok, m1, m3, m4].
passiveMatch(sentence, negated) ==
  LET groups(k, r) ==
        [ok |-> TRUE, m1 |-> Sub(sentence, 1, k), m3 |-> r.pp,
         m4 |-> Rest(sentence, r.tailFrom)]
      shortest(lower, ks) ==
        IF ks = {} THEN [ok |-> FALSE, m1 |-> "", m3 |-> "", m4 |-> ""]
        ELSE groups(Min(ks), passiveRest(sentence, lower, Min(ks), negated))
      subjects(lower) ==
        shortest(lower,
                 {k \in 1..Len(sentence) :
                    /\ passiveRest(sentence, lower, k, negated).ok
                    /\ ~HasLineTerminator(Sub(sentence, 1, k))})
  IN subjects(toLowerCase(sentence))

\* t.replace(/^\s*by\s+.+$/i, "")
stripByTail(t) ==
  LET rest(a, w) ==
        \E j \in (a + 2)..(IF w < Len(t) THEN w ELSE Len(t) - 1) :
           ~HasLineTerminator(Rest(t, j + 1))
      by(a) ==
        /\ toLowerCase(Sub(t, a, a + 1)) = "by"
        /\ rest(a, RunEnd(t, a + 2, SpaceSet))
  IN IF by(RunEnd(t, 1, SpaceSet) + 1) THEN "" ELSE t

buildTail(m4) == trim(stripByTail(trim(m4)))

\* the build of the first strict pattern, lines 278-284
buildNegated(m, owner) ==
  LET assemble(subject, base, tail) ==
        owner \o " did not " \o base \o " " \o subject
          \o (IF tail # "" THEN " " \o tail ELSE "")
  IN assemble(trim(m.m1), toBaseVerb(toLowerCase(m.m3)), buildTail(m.m4))

\* buildAffirmative gone wrong: the affirmative pattern is built as the
\* negated one is (C3 tells the two apart)
buildAffirmativeNegating(m, owner) == buildNegated(m, owner)

\* the build of the second strict pattern, lines 288-293
buildAffirmative(m, owner) ==
  LET assemble(subject, pp, tail) ==
        owner \o " " \o pp \o " " \o subject
          \o (IF tail # "" THEN " " \o tail ELSE "")
  IN assemble(trim(m.m1), toLowerCase(m.m3), buildTail(m.m4))

\* an unset owner is ""
NoOwner == ""

NotAppliedMessage ==
  "Active voice not applied (audit-safe): only strict, meaning-preserving patterns are converted."

\* convertPassiveToActiveSafe gone wrong: the patterns are tried without the
\* test on owner and clearOwnership of line 272 (C14 tells the two apart)
convertWithoutOwnership(sentence, owner, clearOwnership, auditSafeMode) ==
  LET second(m) ==
        IF m.ok
        THEN [converted |-> TRUE, sentence |-> buildAffirmative(m, owner),
              suggestion |-> <<>>]
        ELSE IF auditSafeMode
        THEN [converted |-> FALSE, sentence |-> sentence,
              suggestion |-> <<NotAppliedMessage>>]
        ELSE [converted |-> FALSE, sentence |-> sentence, suggestion |-> <<>>]
      first(m) ==
        IF m.ok
        THEN [converted |-> TRUE, sentence |-> buildNegated(m, owner),
              suggestion |-> <<>>]
        ELSE second(passiveMatch(sentence, FALSE))
  IN first(passiveMatch(sentence, TRUE))

\* convertPassiveToActiveSafe gone wrong: with auditSafeMode on nothing is
\* converted and the suggestion is made instead (C24 tells the two apart)
convertGatedByAuditSafe(sentence, owner, clearOwnership, auditSafeMode) ==
  LET second(m) ==
        IF m.ok
        THEN [converted |-> TRUE, sentence |-> buildAffirmative(m, owner),
              suggestion |-> <<>>]
        ELSE [converted |-> FALSE, sentence |-> sentence, suggestion |-> <<>>]
      first(m) ==
        IF m.ok
        THEN [converted |-> TRUE, sentence |-> buildNegated(m, owner),
              suggestion |-> <<>>]
        ELSE second(passiveMatch(sentence, FALSE))
  IN IF owner = NoOwner \/ ~clearOwnership
     THEN [converted |-> FALSE, sentence |-> sentence, suggestion |-> <<>>]
     ELSE IF auditSafeMode
     THEN [converted |-> FALSE, sentence |-> sentence,
           suggestion |-> <<NotAppliedMessage>>]
     ELSE first(passiveMatch(sentence, TRUE))

\* convertPassiveToActiveSafe gone wrong: the affirmative pattern is tried
\* before the negated one (C16 tells the two apart)
convertAffirmativeFirst(sentence, owner, clearOwnership, auditSafeMode) ==
  LET second(m) ==
        IF m.ok
        THEN [converted |-> TRUE, sentence |-> buildNegated(m, owner),
              suggestion |-> <<>>]
        ELSE IF auditSafeMode
        THEN [converted |-> FALSE, sentence |-> sentence,
              suggestion |-> <<NotAppliedMessage>>]
        ELSE [converted |-> FALSE, sentence |-> sentence, suggestion |-> <<>>]
      first(m) ==
        IF m.ok
        THEN [converted |-> TRUE, sentence |-> buildAffirmative(m, owner),
              suggestion |-> <<>>]
        ELSE second(passiveMatch(sentence, TRUE))
  IN IF owner = NoOwner \/ ~clearOwnership
     THEN [converted |-> FALSE, sentence |-> sentence, suggestion |-> <<>>]
     ELSE first(passiveMatch(sentence, FALSE))

convertPassiveToActiveSafe(sentence, owner, clearOwnership, auditSafeMode) ==
  LET second(m) ==
        IF m.ok
        THEN [converted |-> TRUE, sentence |-> buildAffirmative(m, owner),
              suggestion |-> <<>>]
        ELSE IF auditSafeMode
        THEN [converted |-> FALSE, sentence |-> sentence,
              suggestion |-> <<NotAppliedMessage>>]
        ELSE [converted |-> FALSE, sentence |-> sentence, suggestion |-> <<>>]
      first(m) ==
        IF m.ok
        THEN [converted |-> TRUE, sentence |-> buildNegated(m, owner),
              suggestion |-> <<>>]
        ELSE second(passiveMatch(sentence, FALSE))
  IN IF owner = NoOwner \/ ~clearOwnership
     THEN [converted |-> FALSE, sentence |-> sentence, suggestion |-> <<>>]
     ELSE first(passiveMatch(sentence, TRUE))

\* ------------------------------------------------------ impact and style

ImpactMessage ==
  "Consider adding impact: state the credible consequence (who/what is affected and why it matters) without overstating certainty."

\* impactSuggestionOnly gone wrong: the document type is not looked at
\* (C21 tells the two apart)
impactSuggestionAnyType(sentence, docType) ==
  LET lower == toLowerCase(sentence)
      hasImpactCue == \/ includes(lower, "risk") \/ includes(lower, "impact")
                      \/ includes(lower, "result") \/ includes(lower, "consequence")
  IN IF hasImpactCue THEN <<>> ELSE <<ImpactMessage>>

impactSuggestionOnly(sentence, docType) ==
  LET lower == toLowerCase(sentence)
      hasImpactCue == \/ includes(lower, "risk") \/ includes(lower, "impact")
                      \/ includes(lower, "result") \/ includes(lower, "consequence")
  IN IF docType # "audit-finding" THEN <<>>
     ELSE IF hasImpactCue THEN <<>>
     ELSE <<ImpactMessage>>

\* s.split(/\s+/).length
wordCount(s) ==
  Cardinality({i \in 1..Len(s) : IsSpace(At(s, i)) /\ ~IsSpace(At(s, i - 1))}) + 1

RECURSIVE SumSeq(_)
SumSeq(q) == IF Len(q) = 0 THEN 0 ELSE Head(q) + SumSeq(Tail(q))
RECURSIVE ProdSeq(_)
ProdSeq(q) == IF Len(q) = 0 THEN 1 ELSE Head(q) * ProdSeq(Tail(q))

\* s.replace(/<lit>/i, to): the first occurrence only; lit in lower case
replaceFirstCI(s, lit, to) ==
  LET first(hits) ==
        IF hits = {} THEN s
        ELSE Sub(s, 1, Min(hits) - 1) \o to \o Rest(s, Min(hits) + Len(lit))
      find(lower) == first({i \in 1..Len(s) : StartsWithAt(lower, i, lit)})
  IN find(toLowerCase(s))

\* items.slice(0, n)
slice(items, n) == IF Len(items) > n THEN SubSeq(items, 1, n) ELSE items

IsActive(e) == e.isActive

\* sents.reduce((s, sent) => s + sent.split(/\s+/).length, 0) and
\* Math.max(1, sents.length) of one example
exampleStats(sents) ==
  [words |-> SumSeq([j \in 1..Len(sents) |-> wordCount(sents[j])]),
   count |-> IF Len(sents) > 1 THEN Len(sents) ELSE 1]

\* The averages are kept as exact fractions: active example i has
\* stats[i].words words in stats[i].count sentences, and
\* avgLength = (SUM words/count) / n = num / (den * n).
applyStyleHeuristics(sentence, examples) ==
  LET decide(words, n, num, den) ==
        IF num > 0 /\ words * 2 * den * n > 3 * num /\ words > StyleWordFloor
        THEN replaceFirstCI(replaceFirstCI(sentence, ", and ", ". "),
                            ", which ", ". This ")
        ELSE sentence
      sum(stats, den) ==
        decide(wordCount(sentence), Len(stats),
               SumSeq([i \in 1..Len(stats) |->
                         stats[i].words * (den \div stats[i].count)]),
               den)
      average(stats) ==
        sum(stats, ProdSeq([i \in 1..Len(stats) |-> stats[i].count]))
      anchors(activeExamples) ==
        IF Len(activeExamples) = 0 THEN sentence
        ELSE average([i \in 1..Len(activeExamples) |->
                        exampleStats(splitSentences(activeExamples[i].text))])
  IN anchors(slice(SelectSeq(examples, IsActive), StyleAnchorLimit))

\* -------------------------------------------------- casing, punctuation

\* s.replace(/\bi\b/g, "I")
upperStandaloneI(s) ==
  Concat([i \in 1..Len(s) |->
            IF At(s, i) = "i" /\ ~IsWordChar(At(s, i - 1)) /\ ~IsWordChar(At(s, i + 1))
            THEN "I" ELSE At(s, i)])

fixSentenceCasing(sentence) ==
  LET upper(trimmed, idx) ==
        upperStandaloneI(Sub(trimmed, 1, idx - 1)
                         \o toUpperChar(At(trimmed, idx))
                         \o Rest(trimmed, idx + 1))
      search(trimmed, letters) ==
        IF trimmed = "" \/ letters = {} THEN trimmed
        ELSE upper(trimmed, Min(letters))
      first(trimmed) ==
        search(trimmed, {i \in 1..Len(trimmed) : IsLetter(At(trimmed, i))})
  IN first(trim(sentence))

ensureTerminalPunctuation(sentence) ==
  LET end(trimmed) ==
        IF trimmed = "" THEN trimmed
        ELSE IF IsTerminator(At(trimmed, Len(trimmed))) THEN trimmed
        ELSE trimmed \o "."
  IN end(trim(sentence))

\* ------------------------------------------- the stages of rewriteBlock
\* A stage maps st = [sentence, changeLog, suggestions] to the same record
\* after the stage; changeLog and suggestions are the arrays shared by the
\* whole call.

Change(type, description) == [type |-> type, description |-> description]

conciseStage(st, opts) ==
  LET apply(stripped) ==
        IF stripped.changed
        THEN [st EXCEPT !.sentence = stripped.value,
                        !.changeLog = Append(@, Change("concision",
                            "Removed filler opener: \"" \o stripped.removed \o "\""))]
        ELSE st
  IN IF opts.concise THEN apply(stripFillerOpener(st.sentence)) ELSE st

vocabularyStage(st) ==
  LET apply(vocab) ==
        IF vocab.changed
        THEN [st EXCEPT !.sentence = vocab.value,
                        !.changeLog = @ \o [i \in 1..Len(vocab.changes) |->
                                              Change("clarity", vocab.changes[i])]]
        ELSE st
  IN apply(replaceVocabulary(st.sentence))

spellingStage(st, opts) ==
  LET apply(spelled) ==
        IF spelled.changed
        THEN [st EXCEPT !.sentence = spelled.value,
                        !.changeLog = @ \o [i \in 1..Len(spelled.changes) |->
                                              Change("spelling", spelled.changes[i])]]
        ELSE st
  IN IF opts.standardiseSpelling
     THEN apply(standardiseSpelling(st.sentence, opts.englishVariant))
     ELSE st

qualifierStage(st) ==
  [st EXCEPT !.suggestions = @ \o findQualifierHints(st.sentence)]

\* voiceStage gone wrong: a sentence that is not converted always gets the
\* suggestion, whatever the converter returned (C15 tells the two apart)
voiceStageAlwaysSuggests(st, opts) ==
  LET apply(active) ==
        IF active.converted
        THEN [st EXCEPT !.sentence = active.sentence,
                        !.changeLog = Append(@, Change("voice",
                            "Converted passive to active voice (safe rule)"))]
        ELSE [st EXCEPT !.suggestions = Append(@, NotAppliedMessage)]
  IN IF opts.activeVoice
     THEN apply(convertPassiveToActiveSafe(st.sentence, opts.owner,
                  opts.clearOwnership, opts.auditSafeMode))
     ELSE st

voiceStage(st, opts) ==
  LET apply(active) ==
        IF active.converted
        THEN [st EXCEPT !.sentence = active.sentence,
                        !.changeLog = Append(@, Change("voice",
                            "Converted passive to active voice (safe rule)"))]
        ELSE [st EXCEPT !.suggestions = @ \o active.suggestion]
  IN IF opts.activeVoice
     THEN apply(convertPassiveToActiveSafe(st.sentence, opts.owner,
                  opts.clearOwnership, opts.auditSafeMode))
     ELSE st

\* impactStage gone wrong: the consequence is written into the sentence
\* instead of being suggested (C7 tells the two apart)
impactStageWritesText(st, opts) ==
  IF opts.sharperImpact /\ impactSuggestionOnly(st.sentence, opts.documentType) # <<>>
  THEN [st EXCEPT !.sentence = @ \o " This increases operational risk"]
  ELSE st

impactStage(st, opts) ==
  IF opts.sharperImpact
  THEN [st EXCEPT !.suggestions =
                    @ \o impactSuggestionOnly(st.sentence, opts.documentType)]
  ELSE st

styleStage(st, examples) ==
  IF Len(examples) > 0
  THEN [st EXCEPT !.sentence = applyStyleHeuristics(st.sentence, examples)]
  ELSE st

normaliseStage(st) ==
  [st EXCEPT !.sentence =
     normaliseSpacing(ensureTerminalPunctuation(fixSentenceCasing(st.sentence)))]

\* the stages in the order of the loop body
Stages ==
  << "concise", "vocabulary", "spelling", "qualifier", "voice", "impact",
     "style", "normalise" >>

applyStage(k, st, opts, examples) ==
  CASE Stages[k] = "concise" -> conciseStage(st, opts)
    [] Stages[k] = "vocabulary" -> vocabularyStage(st)
    [] Stages[k] = "spelling" -> spellingStage(st, opts)
    [] Stages[k] = "qualifier" -> qualifierStage(st)
    [] Stages[k] = "voice" -> voiceStage(st, opts)
    [] Stages[k] = "impact" -> impactStage(st, opts)
    [] Stages[k] = "style" -> styleStage(st, examples)
    [] Stages[k] = "normalise" -> normaliseStage(st)

\* one pass of the loop body: the stages k.. applied to st
RECURSIVE rewriteSentence(_, _, _, _)
rewriteSentence(k, st, opts, examples) ==
  IF k > Len(Stages) THEN st
  ELSE rewriteSentence(k + 1, applyStage(k, st, opts, examples), opts, examples)

\* the for loop of rewriteBlock from sentence i on
RECURSIVE rewriteSentences(_, _, _, _, _, _)
rewriteSentences(sents, i, out, acc, opts, examples) ==
  IF i > Len(sents) THEN [rewritten |-> out, changeLog |-> acc.changeLog,
                          suggestions |-> acc.suggestions]
  ELSE LET st == rewriteSentence(1, [sentence |-> sents[i],
                                     changeLog |-> acc.changeLog,
                                     suggestions |-> acc.suggestions],
                                 opts, examples)
       IN rewriteSentences(sents, i + 1, Append(out, st.sentence), st, opts, examples)

\* [value, changeLog, suggestions]: the block rewritten and the two arrays
\* after the call
rewriteBlock(block, opts, examples, changeLog, suggestions) ==
  LET trimmed == trim(block)
      r == rewriteSentences(splitSentences(normaliseSpacing(trimmed)), 1, <<>>,
             [changeLog |-> changeLog, suggestions |-> suggestions], opts, examples)
  IN IF trimmed = ""
     THEN [value |-> block, changeLog |-> changeLog, suggestions |-> suggestions]
     ELSE [value |-> trim(join(r.rewritten, " ")), changeLog |-> r.changeLog,
           suggestions |-> r.suggestions]

\* blocks.map(...) from block i on
RECURSIVE rewriteBlocks(_, _, _, _, _)
rewriteBlocks(blks, i, acc, opts, examples) ==
  IF i > Len(blks) THEN acc
  ELSE LET r == rewriteBlock(blks[i], opts, examples, acc.changeLog, acc.suggestions)
       IN rewriteBlocks(blks, i + 1,
            [rewrittenBlocks |-> Append(acc.rewrittenBlocks, r.value),
             changeLog |-> r.changeLog, suggestions |-> r.suggestions],
            opts, examples)

rewrite(t, opts, examples) ==
  LET r == rewriteBlocks(splitParagraphs(t), 1,
             [rewrittenBlocks |-> <<>>, changeLog |-> <<>>,
              suggestions |-> detectMixedVariant(t)], opts, examples)
  IN [rewrittenText |-> trim(join(r.rewrittenBlocks, "\n\n")),
      changeLog |-> r.changeLog,
      suggestions |-> slice(dedupe(r.suggestions), SuggestionCap)]

\* ------------------------------------------------------ the state machine
\* One call of rewriteEngine.rewrite(text, options, styleExamples), run one
\* statement group at a time.

VARIABLES
  text,             \* the arguments of the call
  options,
  styleExamples,
  pc,               \* "idle", "block", "sentence", "done"
  blocks,           \* splitParagraphs(text)
  bi,               \* the block blocks.map stands at
  sentences,        \* the sentences of the block
  si,               \* the sentence the for loop stands at
  stage,            \* the stage of the loop body that runs next
  sentence,         \* the loop variable
  rewritten,        \* the array of the same name in rewriteBlock
  rewrittenBlocks,
  changeLog,
  suggestions,
  result,           \* the RewriteResult returned, NoResult before
  stored,           \* the object store "styleExamples" of the database
  listed,           \* the state styleExamples of the ClearLine component
  closure,          \* styleExamples as the handlers of the last render see it
  requests          \* the storage calls under way, with what follows each

vars ==
  << text, options, styleExamples, pc, blocks, bi, sentences, si, stage,
     sentence, rewritten, rewrittenBlocks, changeLog, suggestions, result,
     stored, listed, closure, requests >>

\* the state of the shell, which the engine does not touch
shell == << stored, listed, closure, requests >>

\* the examples the shell can hold: an id is absent or belongs to an example
\* that is switched off or on
MaxIds == 4
Ids == 1..MaxIds
NoLibrary == [id \in Ids |-> "absent"]

\* ClearLine.tsx line 58 and an empty database: no example anywhere, no
\* storage call under way
ShellIdle ==
  /\ stored = NoLibrary
  /\ listed = NoLibrary
  /\ closure = NoLibrary
  /\ requests = <<>>

NoResult == [rewrittenText |-> "", changeLog |-> <<>>, suggestions |-> <<>>]

\* Call gone wrong: changeLog and suggestions are kept by the engine and go
\* on from the call before (C13 tells the two apart)
CallKeepsArrays ==
  /\ pc = "idle"
  /\ changeLog' = changeLog
  /\ suggestions' = suggestions \o detectMixedVariant(text)
  /\ blocks' = splitParagraphs(text)
  /\ rewrittenBlocks' = <<>>
  /\ bi' = 1
  /\ pc' = "block"
  /\ UNCHANGED << text, options, styleExamples, sentences, si, stage, sentence,
                  rewritten, result >>
  /\ UNCHANGED shell

\* rewrite, lines 65-72: the two arrays, the mixed-variant scan, the blocks,
\* the array blocks.map fills
Call ==
  /\ pc = "idle"
  /\ changeLog' = <<>>
  /\ suggestions' = detectMixedVariant(text)
  /\ blocks' = splitParagraphs(text)
  /\ rewrittenBlocks' = <<>>
  /\ bi' = 1
  /\ pc' = "block"
  /\ UNCHANGED << text, options, styleExamples, sentences, si, stage, sentence,
                  rewritten, result >>
  /\ UNCHANGED shell

\* rewriteBlock, lines 90-95: an empty block is returned as it is, any other
\* is normalised and split
EnterBlock ==
  /\ pc = "block"
  /\ bi <= Len(blocks)
  /\ \E trimmed \in {trim(blocks[bi])} :
       IF trimmed = ""
       THEN /\ rewrittenBlocks' = Append(rewrittenBlocks, blocks[bi])
            /\ bi' = bi + 1
            /\ UNCHANGED << pc, sentences, si, stage, sentence, rewritten >>
       ELSE \E sents \in {splitSentences(normaliseSpacing(trimmed))} :
              /\ sentences' = sents
              /\ rewritten' = <<>>
              /\ si' = 1
              /\ stage' = "concise"
              /\ sentence' = IF Len(sents) > 0 THEN sents[1] ELSE ""
              /\ pc' = "sentence"
              /\ UNCHANGED << bi, rewrittenBlocks >>
  /\ UNCHANGED << text, options, styleExamples, blocks, changeLog, suggestions, result >>
  /\ UNCHANGED shell

\* the state of the loop body between two of its stages
Current == [sentence |-> sentence, changeLog |-> changeLog, suggestions |-> suggestions]

\* a stage other than the last has run and left st; the stage next runs next
Advance(st, next) ==
  /\ sentence' = st.sentence
  /\ changeLog' = st.changeLog
  /\ suggestions' = st.suggestions
  /\ stage' = next
  /\ UNCHANGED << text, options, styleExamples, pc, blocks, bi, sentences, si,
                  rewritten, rewrittenBlocks, result >>
  /\ UNCHANGED shell

AtStage(name) == pc = "sentence" /\ si <= Len(sentences) /\ stage = name

\* lines 98-104
Concise ==
  /\ AtStage("concise")
  /\ \E st \in {conciseStage(Current, options)} : Advance(st, "vocabulary")

\* lines 106-110
Vocabulary ==
  /\ AtStage("vocabulary")
  /\ \E st \in {vocabularyStage(Current)} : Advance(st, "spelling")

\* lines 112-118
Spelling ==
  /\ AtStage("spelling")
  /\ \E st \in {spellingStage(Current, options)} : Advance(st, "qualifier")

\* line 120
Qualifier ==
  /\ AtStage("qualifier")
  /\ \E st \in {qualifierStage(Current)} : Advance(st, "voice")

\* lines 122-135
Voice ==
  /\ AtStage("voice")
  /\ \E st \in {voiceStage(Current, options)} : Advance(st, "impact")

\* lines 137-140
Impact ==
  /\ AtStage("impact")
  /\ \E st \in {impactStage(Current, options)} : Advance(st, "style")

\* lines 142-144
Style ==
  /\ AtStage("style")
  /\ \E st \in {styleStage(Current, styleExamples)} : Advance(st, "normalise")

\* lines 146-150: casing, terminal punctuation, spacing, rewritten.push; the
\* loop goes to the next sentence
Normalise ==
  /\ AtStage("normalise")
  /\ rewritten' = Append(rewritten, normaliseStage(Current).sentence)
  /\ si' = si + 1
  /\ stage' = "concise"
  /\ sentence' = IF si < Len(sentences) THEN sentences[si + 1] ELSE ""
  /\ UNCHANGED << text, options, styleExamples, pc, blocks, bi, sentences,
                  rewrittenBlocks, changeLog, suggestions, result >>
  /\ UNCHANGED shell

\* line 153: the block's sentences joined
LeaveBlock ==
  /\ pc = "sentence"
  /\ si > Len(sentences)
  /\ rewrittenBlocks' = Append(rewrittenBlocks, trim(join(rewritten, " ")))
  /\ bi' = bi + 1
  /\ pc' = "block"
  /\ UNCHANGED << text, options, styleExamples, blocks, sentences, si, stage,
                  sentence, rewritten, changeLog, suggestions, result >>
  /\ UNCHANGED shell

\* Return gone wrong: the joined blocks are returned without the trim of
\* line 77 (C12 tells the two apart)
ReturnUntrimmed ==
  /\ pc = "block"
  /\ bi > Len(blocks)
  /\ result' = [rewrittenText |-> join(rewrittenBlocks, "\n\n"),
                changeLog |-> changeLog,
                suggestions |-> slice(dedupe(suggestions), SuggestionCap)]
  /\ pc' = "done"
  /\ UNCHANGED << text, options, styleExamples, blocks, bi, sentences, si, stage,
                  sentence, rewritten, rewrittenBlocks, changeLog, suggestions >>
  /\ UNCHANGED shell

\* Return gone wrong: the change log is returned without the entries that
\* repeat an earlier one (C23 tells the two apart)
ReturnDedupedLog ==
  /\ pc = "block"
  /\ bi > Len(blocks)
  /\ result' = [rewrittenText |-> trim(join(rewrittenBlocks, "\n\n")),
                changeLog |->
                  LET first == SelectSeq([i \in 1..Len(changeLog) |-> i],
                                 LAMBDA i : \A j \in 1..(i - 1) :
                                              changeLog[j] # changeLog[i])
                  IN [n \in 1..Len(first) |-> changeLog[first[n]]],
                suggestions |-> slice(dedupe(suggestions), SuggestionCap)]
  /\ pc' = "done"
  /\ UNCHANGED << text, options, styleExamples, blocks, bi, sentences, si, stage,
                  sentence, rewritten, rewrittenBlocks, changeLog, suggestions >>
  /\ UNCHANGED shell

\* lines 76-80
Return ==
  /\ pc = "block"
  /\ bi > Len(blocks)
  /\ result' = [rewrittenText |-> trim(join(rewrittenBlocks, "\n\n")),
                changeLog |-> changeLog,
                suggestions |-> slice(dedupe(suggestions), SuggestionCap)]
  /\ pc' = "done"
  /\ UNCHANGED << text, options, styleExamples, blocks, bi, sentences, si, stage,
                  sentence, rewritten, rewrittenBlocks, changeLog, suggestions >>
  /\ UNCHANGED shell

Next ==
  \/ Call \/ EnterBlock
  \/ Concise \/ Vocabulary \/ Spelling \/ Qualifier \/ Voice \/ Impact \/ Style
  \/ Normalise \/ LeaveBlock \/ Return

\* ------------------------------------------------------------ the inputs

\* an unset owner is NoOwner
Owners == {NoOwner, "Operations"}

\* baseOptions of rewriteEngine.test.ts
baseOptions ==
  [ activeVoice |-> TRUE, clearOwnership |-> TRUE, sharperImpact |-> TRUE,
    calmTone |-> TRUE, concise |-> TRUE, auditSafeMode |-> TRUE,
    owner |-> "Operations", documentType |-> "audit-finding",
    englishVariant |-> "en-GB", standardiseSpelling |-> TRUE ]

\* The option records of the calls: baseOptions, each record that differs
\* from it in one field, then records that differ in two.
OptionList ==
  << baseOptions,
     [baseOptions EXCEPT !.activeVoice = FALSE],
     [baseOptions EXCEPT !.clearOwnership = FALSE],
     [baseOptions EXCEPT !.owner = NoOwner],
     [baseOptions EXCEPT !.englishVariant = "en-US"],
     [baseOptions EXCEPT !.sharperImpact = FALSE],
     [baseOptions EXCEPT !.auditSafeMode = FALSE],
     [baseOptions EXCEPT !.concise = FALSE],
     [baseOptions EXCEPT !.standardiseSpelling = FALSE],
     [baseOptions EXCEPT !.documentType = "executive-summary"],
     [baseOptions EXCEPT !.calmTone = FALSE],
     [baseOptions EXCEPT !.documentType = "status-update"],
     [baseOptions EXCEPT !.documentType = "email-senior"],
     [baseOptions EXCEPT !.documentType = "risk-description"],
     [baseOptions EXCEPT !.activeVoice = FALSE, !.auditSafeMode = FALSE],
     [baseOptions EXCEPT !.owner = NoOwner, !.englishVariant = "en-US"] >>

MaxOptions == 14
OptionSets == {OptionList[k] : k \in 1..Min({MaxOptions, Len(OptionList)})}

\* "<X> was not completed <tail>"
NegationText(X, tail) ==
  X \o " was not completed" \o (IF tail = "" THEN "" ELSE " " \o tail)

\* The sentences the general texts are made of.
Corpus ==
  << NegationText("The review", "on time."),
     "Access reviews were completed quarterly.",
     "reviews were completed by staff who may be absent.",
     "We note that access reviews may not detect unauthorised access at this stage",
     "email ops@company.com about the organisation",
     "See https://example.com/authorisation.",
     "Path C:\\Temp\\authorisation\\file.txt.",
     "Use ~authorisation~ as the config key!",
     NegationText("It", ""),
     "we will analyze the behaviour ,then i decide",
     "The control WAS NOT Reviewed by the team?",
     "visit www.example.org/catalogue today",
     "the log /var/organisation is kept" >>

\* the general texts: up to MaxWindow consecutive sentences of the corpus
\* (going round), in one paragraph or in one paragraph each
MaxWindow == 2
Window(first, n) ==
  [k \in 1..n |-> Corpus[((first + k - 2) % Len(Corpus)) + 1]]
Texts ==
  {join(Window(first, n), IF first % 2 = 1 THEN " " ELSE "\n\n") :
     first \in 1..Len(Corpus), n \in 1..MaxWindow}

\* The style texts: a sentence of StyleWordFloor words that holds both split
\* points, and the same sentence one word longer.
FloorSentence == "a b c d e f g h i j k l m n o, and p q, which r s t"
LongSentence == FloorSentence \o " u"
StyleTexts == {FloorSentence, LongSentence}

\* the example lists: the first n examples, n up to MaxExamples
StyleExampleList ==
  << [id |-> "1", text |-> "Short one. Another short one.", isActive |-> TRUE],
     [id |-> "2", text |-> "This one is switched off", isActive |-> FALSE],
     [id |-> "3", text |-> "Keep it brief.", isActive |-> TRUE],
     [id |-> "4", text |-> "State the fact", isActive |-> TRUE],
     [id |-> "5", text |-> "One more anchor.", isActive |-> TRUE],
     [id |-> "6", text |-> "And another.", isActive |-> TRUE] >>
MaxExamples == 4
ExampleLists ==
  {SubSeq(StyleExampleList, 1, n) : n \in 0..Min({MaxExamples, Len(StyleExampleList)})}

\* The hedged texts: the first n sentences of the list, n up to MaxHedged; every
\* sentence holds another set of qualifiers.
HedgedSentences ==
  << "it may.", "it could.", "it might.", "potentially.", "it appears to.",
     "it seems to.", "generally.", "possibly.", "it may or could.",
     "it may or might.", "it could or might.", "the programme may analyze.",
     "it may.", "generally or possibly.", "potentially or possibly." >>
MaxHedged == 13
HedgedTexts ==
  {join(SubSeq(HedgedSentences, 1, n), " ") :
     n \in 1..Min({MaxHedged, Len(HedgedSentences)})}

\* The dictionary texts: a term in lower case, with an initial capital and
\* in capitals.
Forms(w) ==
  w \o " " \o toUpperCase(Sub(w, 1, 1)) \o Rest(w, 2) \o " " \o toUpperCase(w)
DictionaryTexts ==
  {Forms(ukToUs[k][n]) : k \in 1..Len(ukToUs), n \in 1..2}

NoExamples == <<>>

\* The stage texts: one sentence each, for the spelling, vocabulary, filler,
\* qualifier and voice stages, under the option records that switch a stage
\* or its preconditions.
StageSentences ==
  << "We organise the oRGANISE reorganise organisers re-organise and organize ~organise~",
     "the log /organisation/archive is kept",
     "/organisation/archive holds the programme",
     "Due to the fact that this stage is late, we wait in order to act in order to win",
     "The lack of clarity is Not Consistently noted within order today",
     "For awareness, the control failed",
     "WE NOTE THAT for awareness it should be noted",
     "We note that",
     "The plan was approved but the review was not completed by staff",
     "The report was not tested by the team",
     "The cat sat on the mat",
     "Maybe it COULD possibly work" >>
StageTexts == {StageSentences[k] : k \in 1..Len(StageSentences)}
StageOptions == {OptionList[k] : k \in {1, 2, 3, 4, 5, 7, 8, 9}}

\* The impact texts: sentences that hold a cue word, in another case or
\* inside a longer word, under the option records that switch the impact
\* stage or change the document type.
ImpactTexts == {"The RESULT is late", "Consequences followed the outage"}
ImpactOptions == {OptionList[k] : k \in {1, 6, 10, 12, 13, 14}}

\* The log text: two paragraphs, three sentences that all hold "in order
\* to"; the first gets an entry of each type, with its two vocabulary
\* phrases in the reverse of the table order.
LogText ==
  "We note that the programme was reviewed in order to organize at this stage. "
    \o "They wait in order to win.\n\nIt was approved in order to help"

\* The segment texts: paragraphs that begin with terminator characters, or
\* hold nothing else, rewritten with every toggle on and with every toggle
\* off.
SegmentTexts ==
  {".5 percent is low", "...and so it goes. Fine!", "?!",
   "First para ends\n\n!second starts. it ends"}
PlainOptions ==
  [ activeVoice |-> FALSE, clearOwnership |-> FALSE, sharperImpact |-> FALSE,
    calmTone |-> FALSE, concise |-> FALSE, auditSafeMode |-> FALSE,
    owner |-> NoOwner, documentType |-> "status-update",
    englishVariant |-> "en-GB", standardiseSpelling |-> FALSE ]

\* the empty text and texts of white space only
BlankTexts == {"", "   ", "\n\n", " \n\n\t \n"}

Inputs ==
  (Texts \X OptionSets \X {NoExamples})
    \cup (StyleTexts \X {baseOptions} \X ExampleLists)
    \cup (HedgedTexts \X {baseOptions} \X {NoExamples})
    \cup (DictionaryTexts
            \X {baseOptions, [baseOptions EXCEPT !.englishVariant = "en-US"]}
            \X {NoExamples})
    \cup (StageTexts \X StageOptions \X {NoExamples})
    \cup (ImpactTexts \X ImpactOptions \X {NoExamples})
    \cup ({LogText} \X {baseOptions} \X {NoExamples})
    \cup (SegmentTexts \X {baseOptions, PlainOptions} \X {NoExamples})
    \cup (BlankTexts \X {baseOptions} \X {NoExamples, <<StyleExampleList[1]>>})

Init ==
  /\ \E in \in Inputs :
       /\ text = in[1]
       /\ options = in[2]
       /\ styleExamples = in[3]
  /\ pc = "idle"
  /\ blocks = <<>>
  /\ bi = 0
  /\ sentences = <<>>
  /\ si = 0
  /\ stage = "concise"
  /\ sentence = ""
  /\ rewritten = <<>>
  /\ rewrittenBlocks = <<>>
  /\ changeLog = <<>>
  /\ suggestions = <<>>
  /\ result = NoResult
  /\ ShellIdle

Spec == Init /\ [][Next]_vars

\* ------------------------------------------- calls on the shared engine

\* The one engine of line 402 is called again and again: after a call has
\* returned, the interface calls rewrite with other arguments.  What the call
\* before left behind (its result with the caller, its locals) is still
\* there when the next call starts.
CallTexts ==
  { Corpus[4], Corpus[2], Corpus[10], "" }
CallInputs ==
  CallTexts \X {baseOptions, [baseOptions EXCEPT !.englishVariant = "en-US"]}
            \X {NoExamples}

NextCall ==
  /\ pc = "done"
  /\ \E in \in CallInputs :
       /\ text' = in[1]
       /\ options' = in[2]
       /\ styleExamples' = in[3]
  /\ pc' = "idle"
  /\ UNCHANGED << blocks, bi, sentences, si, stage, sentence, rewritten,
                  rewrittenBlocks, changeLog, suggestions, result >>
  /\ UNCHANGED shell

InitCalls ==
  /\ \E in \in CallInputs :
       /\ text = in[1]
       /\ options = in[2]
       /\ styleExamples = in[3]
  /\ pc = "idle"
  /\ blocks = <<>>
  /\ bi = 0
  /\ sentences = <<>>
  /\ si = 0
  /\ stage = "concise"
  /\ sentence = ""
  /\ rewritten = <<>>
  /\ rewrittenBlocks = <<>>
  /\ changeLog = <<>>
  /\ suggestions = <<>>
  /\ result = NoResult
  /\ ShellIdle

NextCalls == Next \/ NextCall

SpecCalls == InitCalls /\ [][NextCalls]_vars

\* ------------------------------------------------------- twin calls
\* The calls whose twins (the same call but for auditSafeMode, calmTone or
\* documentType) are compared: the general texts under the option records
\* that differ in those fields, the longest hedged text, which collects more
\* suggestions than are returned, and the style texts.
TwinOptions == {OptionList[k] : k \in {1, 7, 10, 11, 15}}
LongestHedged ==
  join(SubSeq(HedgedSentences, 1, Min({MaxHedged, Len(HedgedSentences)})), " ")
TwinInputs ==
  (Texts \X TwinOptions \X {NoExamples})
    \cup ({LongestHedged} \X {OptionList[1], OptionList[7]} \X {NoExamples})
    \cup (StyleTexts \X {OptionList[7]} \X {<<StyleExampleList[1]>>})

InitTwins ==
  /\ \E in \in TwinInputs :
       /\ text = in[1]
       /\ options = in[2]
       /\ styleExamples = in[3]
  /\ pc = "idle"
  /\ blocks = <<>>
  /\ bi = 0
  /\ sentences = <<>>
  /\ si = 0
  /\ stage = "concise"
  /\ sentence = ""
  /\ rewritten = <<>>
  /\ rewrittenBlocks = <<>>
  /\ changeLog = <<>>
  /\ suggestions = <<>>
  /\ result = NoResult
  /\ ShellIdle

SpecTwins == InitTwins /\ [][Next]_vars

\* ------------------------------------------------ the style library
\* The handlers of the ClearLine component that change the style examples,
\* and the calls of the Storage class they await.  A handler runs up to its
\* first await in one step and leaves the storage call in requests; the
\* calls complete in the order they were made, and what the handler does
\* after the await follows the completion.

\* the state of the engine, which the shell's handlers leave alone here
engine ==
  << text, options, styleExamples, pc, blocks, bi, sentences, si, stage,
     sentence, rewritten, rewrittenBlocks, changeLog, suggestions, result >>

\* the storage calls that may be under way at once: a handler starts when
\* fewer are
MaxRequests == 1

\* "Maximum 3 active style anchors allowed"
ActiveLimit == 3

Request(op, id, isActive, then, file) ==
  [op |-> op, id |-> id, isActive |-> isActive, then |-> then, file |-> file]

\* the files to import: examples 1..n, all active
ImportFiles ==
  {[k \in 1..n |-> [id |-> k, isActive |-> TRUE]] : n \in {1, MaxIds}}

\* what the handler does when the call it awaited has completed: read the
\* examples back, or nothing
Follow(then) ==
  IF then = "refresh" THEN << Request("get", 0, FALSE, "set", <<>>) >> ELSE <<>>

\* id is in no example and in no call: Date.now().toString() is new
Fresh(id) ==
  /\ stored[id] = "absent" /\ listed[id] = "absent" /\ closure[id] = "absent"
  /\ \A k \in 1..Len(requests) :
       /\ requests[k].id # id
       /\ \A j \in 1..Len(requests[k].file) : requests[k].file[j].id # id

\* React renders the component again: the handlers see the state set last
Render ==
  /\ closure # listed
  /\ closure' = listed
  /\ UNCHANGED << stored, listed, requests >>
  /\ UNCHANGED engine

\* ClearLine.tsx lines 147-167, up to "await storage.saveStyleExample"
handleAddExample ==
  /\ Len(requests) < MaxRequests
  /\ \E id \in Ids :
       /\ Fresh(id)
       /\ \A other \in Ids : Fresh(other) => id <= other
       /\ requests' = Append(requests, Request("put", id, FALSE, "refresh", <<>>))
  /\ UNCHANGED << stored, listed, closure >>
  /\ UNCHANGED engine

\* ClearLine.tsx lines 169-184, up to "await storage.saveStyleExample"
handleToggleActive ==
  /\ Len(requests) < MaxRequests
  /\ \E id \in Ids :
       /\ closure[id] # "absent"
       /\ LET activeCount == Cardinality({e \in Ids : closure[e] = "on"})
              updatedExamples ==
                [closure EXCEPT ![id] = IF @ = "on" THEN "off" ELSE "on"]
          IN IF closure[id] = "off" /\ activeCount >= ActiveLimit
             THEN UNCHANGED << listed, requests >>
             ELSE /\ listed' = updatedExamples
                  /\ requests' = Append(requests,
                       Request("put", id, updatedExamples[id] = "on", "none", <<>>))
  /\ UNCHANGED << stored, closure >>
  /\ UNCHANGED engine

\* ClearLine.tsx lines 186-190, up to "await storage.deleteStyleExample"
handleDeleteExample ==
  /\ Len(requests) < MaxRequests
  /\ \E id \in Ids :
       /\ closure[id] # "absent"
       /\ requests' = Append(requests, Request("delete", id, FALSE, "refresh", <<>>))
  /\ UNCHANGED << stored, listed, closure >>
  /\ UNCHANGED engine

\* ClearLine.tsx lines 203-209, up to "await storage.importAll"
handleFileChange ==
  /\ Len(requests) < MaxRequests
  /\ \E file \in ImportFiles :
       requests' = Append(requests, Request("import", 0, FALSE, "refresh", file))
  /\ UNCHANGED << stored, listed, closure >>
  /\ UNCHANGED engine

\* ClearLine.tsx lines 227-231, up to "await storage.clearAll"
handleClearAll ==
  /\ Len(requests) < MaxRequests
  /\ requests' = Append(requests, Request("clear", 0, FALSE, "empty", <<>>))
  /\ UNCHANGED << stored, listed, closure >>
  /\ UNCHANGED engine

\* the call made first is the one to complete
Completes(op) == requests # <<>> /\ Head(requests).op = op

\* Storage.saveStyleExample, lines 445-454, and the handler's next call
saveStyleExample ==
  /\ Completes("put")
  /\ stored' = [stored EXCEPT ![Head(requests).id] =
                  IF Head(requests).isActive THEN "on" ELSE "off"]
  /\ requests' = Tail(requests) \o Follow(Head(requests).then)
  /\ UNCHANGED << listed, closure >>
  /\ UNCHANGED engine

\* Storage.deleteStyleExample, lines 456-465, and the handler's next call
deleteStyleExample ==
  /\ Completes("delete")
  /\ stored' = [stored EXCEPT ![Head(requests).id] = "absent"]
  /\ requests' = Tail(requests) \o Follow(Head(requests).then)
  /\ UNCHANGED << listed, closure >>
  /\ UNCHANGED engine

\* Storage.getStyleExamples, lines 434-443, and setStyleExamples on its result
getStyleExamples ==
  /\ Completes("get")
  /\ listed' = stored
  /\ requests' = Tail(requests)
  /\ UNCHANGED << stored, closure >>
  /\ UNCHANGED engine

\* Storage.importAll, lines 495-511: one example of the file is saved as it
\* is written, isActive included; after the last the handler reads the
\* examples back
importAll ==
  /\ Completes("import")
  /\ \E file \in {Head(requests).file} :
       /\ stored' = [stored EXCEPT ![file[1].id] =
                       IF file[1].isActive THEN "on" ELSE "off"]
       /\ requests' = Tail(requests)
            \o (IF Len(file) > 1
                THEN << Request("import", 0, FALSE, "refresh", Tail(file)) >>
                ELSE Follow("refresh"))
  /\ UNCHANGED << listed, closure >>
  /\ UNCHANGED engine

\* Storage.clearAll, lines 540-550, and setStyleExamples([]) of line 232
clearAll ==
  /\ Completes("clear")
  /\ stored' = NoLibrary
  /\ listed' = NoLibrary
  /\ requests' = Tail(requests)
  /\ UNCHANGED closure
  /\ UNCHANGED engine

NextShell ==
  \/ Render
  \/ handleAddExample \/ handleToggleActive \/ handleDeleteExample
  \/ handleFileChange \/ handleClearAll
  \/ saveStyleExample \/ deleteStyleExample \/ getStyleExamples
  \/ importAll \/ clearAll

\* the component is mounted on an empty database; the engine is idle
InitShell ==
  /\ text = ""
  /\ options = baseOptions
  /\ styleExamples = NoExamples
  /\ pc = "idle"
  /\ blocks = <<>>
  /\ bi = 0
  /\ sentences = <<>>
  /\ si = 0
  /\ stage = "concise"
  /\ sentence = ""
  /\ rewritten = <<>>
  /\ rewrittenBlocks = <<>>
  /\ changeLog = <<>>
  /\ suggestions = <<>>
  /\ result = NoResult
  /\ ShellIdle

SpecShell == InitShell /\ [][NextShell]_vars

\* the machine returns what the function computes
ResultIsRewrite ==
  pc = "done" => result = rewrite(text, options, styleExamples)

\* --------------------------------------------------------------- claims
\* What the claims speak of, said without the code's operators where the
\* claim defines it itself.

\* the set of the elements of a sequence
Range(q) == {q[k] : k \in 1..Len(q)}

\* the number of places lit occurs at in s as a whole word
CountWord(s, lit) ==
  Cardinality({i \in 1..(Len(s) - Len(lit) + 1) :
                 /\ SubSeq(s, i, i + Len(lit) - 1) = lit
                 /\ ~IsWordChar(At(s, i - 1))
                 /\ ~IsWordChar(At(s, i + Len(lit)))})

\* the sentences of the input as rewriteBlock sees them, block after block
InputSentences(t) ==
  LET blocksOf == splitParagraphs(t)
  IN UNION {Range(splitSentences(normaliseSpacing(trim(blocksOf[b])))) :
              b \in 1..Len(blocksOf)}

\* the spans of the input the pattern of protectTokens matches
ProtectedSpans(t) ==
  {c.value : c \in {d \in Range(protectTokens(t)) : d.kind = "protected"}}

\* C1: protected-span invariance: every protected span of the input (URL,
\* email address, backtick span, drive path, POSIX path) occurs as the same
\* exact substring in rewrittenText.
C1_ProtectedSpansKept ==
  pc = "done" =>
    \A span \in ProtectedSpans(text) : includes(result.rewrittenText, span)

\* C2: qualifier preservation: a hedging term of a sentence of the input is
\* still present in the corresponding sentence of the output (compared
\* without regard to letter case, as the repository's test does).
C2_QualifiersKept ==
  \A i \in 1..Len(rewritten) : \A k \in 1..Len(qualifiers) :
     includes(toLowerCase(sentences[i]), qualifiers[k])
       => includes(toLowerCase(rewritten[i]), qualifiers[k])

\* "was not" or "were not" stands directly before a recognised participle
NegatedParticiple(s) ==
  \E k \in 1..Len(participles) :
     \/ includes(toLowerCase(s), "was not " \o participles[k])
     \/ includes(toLowerCase(s), "were not " \o participles[k])

\* C3: no invented negation: a sentence in which no recognised participle
\* follows "was not" or "were not", rewritten for an owner without "not",
\* holds no "did not" and no other "not" that the input sentence did not
\* hold; "<X> were completed <tail>" keeps "completed" and gets no
\* "did not".
C3_NoInventedNegation ==
  \A i \in 1..Len(rewritten) :
     (~NegatedParticiple(sentences[i]) /\ CountWord(toLowerCase(options.owner), "not") = 0)
       => /\ CountWord(toLowerCase(rewritten[i]), "did not")
               <= CountWord(toLowerCase(sentences[i]), "did not")
          /\ CountWord(toLowerCase(rewritten[i]), "not")
               <= CountWord(toLowerCase(sentences[i]), "not")
          /\ (/\ CountWord(toLowerCase(sentences[i]), "were completed") > 0
              /\ CountWord(toLowerCase(sentences[i]), "did not") = 0)
               => /\ CountWord(toLowerCase(rewritten[i]), "completed") > 0
                  /\ CountWord(toLowerCase(rewritten[i]), "did not") = 0

\* C3 witness: an affirmative passive sentence has been converted for the
\* owner and the result holds no "did not".
C3_Witness ==
  \E i \in 1..Len(rewritten) :
     /\ sentences[i] = "Access reviews were completed quarterly."
     /\ rewritten[i] = "Operations completed Access reviews quarterly."

\* the subjects and tails of the sentences "<X> was not completed <tail>"
\* among the inputs
NegationPairs ==
  { [X |-> "The review", tail |-> "on time."], [X |-> "It", tail |-> ""] }

\* "Operations did not complete <X> <tail>", in lower case
NegationExpected(p) ==
  toLowerCase("Operations did not complete " \o p.X
              \o (IF p.tail = "" THEN "" ELSE " " \o p.tail))

\* the input holds the sentence "<X> was not completed <tail>" of the pair
HasNegationSentence(p) == NegationText(p.X, p.tail) \in InputSentences(text)

FirstLetterUpper(s) ==
  LET letters == {i \in 1..Len(s) : IsLetter(At(s, i))}
  IN letters = {} \/ At(s, Min(letters)) \in UpperSet

\* C5: terminal-formatting invariant: every sentence of rewrittenText (a
\* maximal run of non-terminators with the terminators after it) ends with
\* one of . ! ? and has its first letter in upper case, also after the style
\* split and the voice conversion.
C5_TerminalFormatting ==
  (pc = "done" /\ text # "") =>
    \A s \in Range(matchSentences(result.rewrittenText, 1)) :
       IsTerminator(At(s, Len(s))) /\ FirstLetterUpper(s)

\* s without its letter case, punctuation and white space
Unformatted(s) ==
  Concat([i \in 1..Len(s) |->
            IF IsWordChar(At(s, i)) THEN toLowerChar(At(s, i)) ELSE ""])

\* C6: idempotent formatting: the pipeline run again on its own output
\* changes no casing, no punctuation and no spacing around punctuation:
\* where the second run keeps the words, it keeps the whole text.
C6_IdempotentFormatting ==
  pc = "done" =>
    LET again == rewrite(result.rewrittenText, options, styleExamples).rewrittenText
    IN Unformatted(again) = Unformatted(result.rewrittenText)
         => again = result.rewrittenText

\* C7: suggestion non-mutation: the impact stage leaves the sentence and the
\* change log as they are, and the call returns the same rewrittenText and
\* the same changeLog with sharperImpact on and off.
C7_ImpactOnlySuggests ==
  /\ (pc = "sentence" /\ stage = "impact") =>
       /\ impactStage(Current, options).sentence = sentence
       /\ impactStage(Current, options).changeLog = changeLog
  /\ pc = "done" =>
       LET other == rewrite(text, [options EXCEPT !.sharperImpact = ~@], styleExamples)
       IN /\ other.rewrittenText = result.rewrittenText
          /\ other.changeLog = result.changeLog

\* C7 witness: a call with sharperImpact on has returned the impact
\* suggestion.
C7_Witness ==
  /\ pc = "done"
  /\ options.sharperImpact
  /\ ImpactMessage \in Range(result.suggestions)

\* the raw input holds a UK form, a US form, of the dictionary as a whole
\* word, without regard to case
HasUkTerm(t) == \E k \in 1..Len(ukToUs) : CountWord(toLowerCase(t), ukToUs[k][1]) > 0
HasUsTerm(t) == \E k \in 1..Len(ukToUs) : CountWord(toLowerCase(t), ukToUs[k][2]) > 0

\* C8: mixed-variant detection: the suggestions returned hold the mixed
\* UK/US suggestion exactly once if the raw input holds a UK form and a US
\* form of the dictionary as whole words, and not at all otherwise.
C8_MixedVariantDetected ==
  pc = "done" =>
    Cardinality({k \in 1..Len(result.suggestions) :
                   result.suggestions[k] = MixedVariantMessage})
      = (IF HasUkTerm(text) /\ HasUsTerm(text) THEN 1 ELSE 0)

\* C8 witness: a call on a text with both forms has returned the suggestion.
C8_Witness ==
  /\ pc = "done"
  /\ HasUkTerm(text) /\ HasUsTerm(text)
  /\ MixedVariantMessage \in Range(result.suggestions)

\* the dictionary pairs every UK form with one US form and the reverse, and
\* no word is a form of both sides
DictionaryIsBijection ==
  /\ \A i, j \in 1..Len(ukToUs) :
        i # j => ukToUs[i][1] # ukToUs[j][1] /\ ukToUs[i][2] # ukToUs[j][2]
  /\ \A i, j \in 1..Len(ukToUs) : ukToUs[i][1] # ukToUs[j][2]

\* the three written forms of the two sides of every entry
DictionaryForms ==
  [k \in 1..Len(ukToUs) |-> [uk |-> Forms(ukToUs[k][1]), us |-> Forms(ukToUs[k][2])]]

\* the spelling stage has just run on the only sentence of the text
Spelled == pc = "sentence" /\ stage = "qualifier" /\ text \in DictionaryTexts

\* C9: variant round trip: the dictionary is a bijection; a UK term in lower
\* case, with an initial capital or in capitals is standardised to en-US as
\* the US term in the same form, and that result goes back to the UK term
\* under en-GB; the same from every US term to en-GB and back.
C9_VariantRoundTrip ==
  /\ DictionaryIsBijection
  /\ (Spelled /\ options.standardiseSpelling) =>
       \A k \in 1..Len(ukToUs) :
          /\ (text = DictionaryForms[k].uk /\ options.englishVariant = "en-US")
               => /\ sentence = DictionaryForms[k].us
                  /\ standardiseSpelling(sentence, "en-GB").value = text
          /\ (text = DictionaryForms[k].us /\ options.englishVariant = "en-GB")
               => /\ sentence = DictionaryForms[k].uk
                  /\ standardiseSpelling(sentence, "en-US").value = text

\* C9 witness: the three forms of a UK term have been standardised to en-US.
C9_Witness ==
  /\ Spelled
  /\ text = "unauthorised Unauthorised UNAUTHORISED"
  /\ options.englishVariant = "en-US"
  /\ sentence = "unauthorized Unauthorized UNAUTHORIZED"

\* the strings of items, trimmed, each at its first place only, without the
\* empty ones
RECURSIVE FirstSeen(_, _)
FirstSeen(items, seen) ==
  IF items = <<>> THEN <<>>
  ELSE IF trim(Head(items)) = "" \/ trim(Head(items)) \in seen
  THEN FirstSeen(Tail(items), seen)
  ELSE << trim(Head(items)) >> \o FirstSeen(Tail(items), seen \cup {trim(Head(items))})

\* the distinct suggestions emitted during the call
DistinctSuggestions == {trim(s) : s \in Range(suggestions)} \ {""}

\* C10: suggestion dedup and cap: the suggestions returned are the first 12
\* of the suggestions emitted during the call, trimmed, each kept at its
\* first place: no duplicates, min(12, number of distinct suggestions) in
\* all.
C10_SuggestionsDedupedAndCapped ==
  pc = "done" =>
    /\ result.suggestions
         = SubSeq(FirstSeen(suggestions, {}), 1,
                  Min({12, Len(FirstSeen(suggestions, {}))}))
    /\ Cardinality(Range(result.suggestions)) = Len(result.suggestions)
    /\ Len(result.suggestions) = Min({12, Cardinality(DistinctSuggestions)})

\* C10 witness: a call that emitted more than 12 distinct suggestions, and
\* some of them more than once, has returned 12.
C10_Witness ==
  /\ pc = "done"
  /\ Cardinality(DistinctSuggestions) > 12
  /\ Len(suggestions) > Cardinality(DistinctSuggestions)
  /\ Len(result.suggestions) = 12

\* the word of s that starts at place a: the run of word characters from a
\* on that no word character follows
WordFrom(s, a) ==
  SubSeq(s, a, CHOOSE b \in a..Len(s) :
                  /\ \A i \in a..b : IsWordChar(At(s, i))
                  /\ ~IsWordChar(At(s, b + 1)))

\* the word w as the claim wants it under the target variant: a term of the
\* other variant becomes its counterpart, in capitals if w is, with an
\* initial capital if w has one, in lower case otherwise; any other word stays
SpelledWord(w, variant) ==
  LET other == IF variant = "en-US" THEN 1 ELSE 2
      hits == {k \in 1..Len(ukToUs) : ukToUs[k][other] = toLowerCase(w)}
      target == ukToUs[CHOOSE k \in hits : TRUE][3 - other]
  IN IF hits = {} THEN w
     ELSE IF toUpperCase(w) = w THEN toUpperCase(target)
     ELSE IF At(w, 1) \in UpperSet THEN toUpperChar(At(target, 1)) \o Rest(target, 2)
     ELSE target

\* a stretch of free text with every word spelled for the variant
SpelledText(s, variant) ==
  Concat([i \in 1..Len(s) |->
            IF ~IsWordChar(At(s, i)) THEN At(s, i)
            ELSE IF IsWordChar(At(s, i - 1)) THEN ""
            ELSE SpelledWord(WordFrom(s, i), variant)])

\* the sentence with the words outside its protected spans spelled for the
\* variant
SpelledSentence(s, variant) ==
  Concat([c \in 1..Len(protectTokens(s)) |->
            IF protectTokens(s)[c].kind = "protected"
            THEN protectTokens(s)[c].value
            ELSE SpelledText(protectTokens(s)[c].value, variant)])

\* C11: spelling standardisation contract: with standardiseSpelling on, the
\* spelling stage replaces every whole word outside the protected spans that
\* is a term of the other variant by its counterpart in the capitalisation
\* of the match, and leaves every other word (a word that only holds a term
\* as a part, a word of the target variant) and every protected span as it
\* is; with standardiseSpelling off it changes nothing and logs nothing.
C11_SpellingContract ==
  AtStage("spelling") =>
    /\ options.standardiseSpelling =>
         spellingStage(Current, options).sentence
           = SpelledSentence(sentence, options.englishVariant)
    /\ ~options.standardiseSpelling => spellingStage(Current, options) = Current

\* C11 witness: the spelling stage has run for en-US on a sentence with a
\* term in lower and in mixed case, with words that hold a term as a part,
\* with a word of the target variant and with a term in a protected span.
C11_Witness ==
  /\ AtStage("qualifier")
  /\ sentences[si] = StageSentences[1]
  /\ options.standardiseSpelling /\ options.englishVariant = "en-US"
  /\ sentence = "We organize the organize reorganise organisers re-organize and organize ~organise~"

\* the text is empty or holds white space only
IsBlank(t) == \A i \in 1..Len(t) : IsSpace(At(t, i))

\* the call stands at a step that has a continuation: the call itself, a
\* block to enter or the return after the last, a stage of the loop body or
\* the end of the loop
CanContinue ==
  \/ pc = "idle"
  \/ pc = "block" /\ bi \in 1..(Len(blocks) + 1)
  \/ /\ pc = "sentence"
     /\ si \in 1..(Len(sentences) + 1)
     /\ si <= Len(sentences) =>
          stage \in {"concise", "vocabulary", "spelling", "qualifier", "voice",
                     "impact", "style", "normalise"}

\* C12: no failure on any input: a call never stops before it returns (no
\* step of the pipeline is without a continuation), and for the empty input
\* and for an input of white space only it returns rewrittenText = "", an
\* empty changeLog and no suggestions.
C12_NoFailure ==
  /\ pc # "done" => CanContinue
  /\ (pc = "done" /\ IsBlank(text)) =>
       /\ result.rewrittenText = ""
       /\ result.changeLog = <<>>
       /\ result.suggestions = <<>>

\* C12 witness: a call on two blank paragraphs, with a style example, has
\* returned.
C12_Witness ==
  /\ pc = "done"
  /\ text = " \n\n\t \n"
  /\ styleExamples # <<>>
  /\ Len(blocks) = 2
  /\ result.rewrittenText = ""

\* C13: call independence: whatever calls were made before on the shared
\* engine, a call returns what the same call returns when it is the first on
\* a fresh engine, and no step of a call changes its text, options or
\* styleExamples arguments.
C13_CallIndependence ==
  /\ [](pc = "done" => result = rewrite(text, options, styleExamples))
  /\ [][pc # "done" =>
          (text' = text /\ options' = options /\ styleExamples' = styleExamples)]_vars

\* C13 witness: a call on the empty text has returned the empty result after
\* an earlier call that logged changes and made suggestions (its sentences
\* are still in the locals).
C13_Witness ==
  /\ pc = "done"
  /\ text = ""
  /\ sentences # <<>>
  /\ changeLog = <<>> /\ suggestions = <<>>
  /\ result = NoResult

\* the entries of a change log that are of type "voice"
VoiceEntries(log) == {k \in 1..Len(log) : log[k].type = "voice"}

\* the suggestions that say the conversion was withheld
WithheldSuggestions(sugg) ==
  {k \in 1..Len(sugg) : includes(sugg[k], "Active voice not applied (audit-safe)")}

\* the ownership precondition of the voice stage fails
NoOwnership == options.owner = "" \/ ~options.clearOwnership

\* C14: ownership precondition: with owner unset or empty, or clearOwnership
\* off, the voice stage leaves the sentence as it is, logs no "voice" entry
\* and makes no "Active voice not applied" suggestion, also for a sentence of
\* a strict passive pattern and with activeVoice and auditSafeMode on; so
\* the call returns no such entry and no such suggestion.
C14_OwnershipPrecondition ==
  /\ (AtStage("voice") /\ NoOwnership) => voiceStage(Current, options) = Current
  /\ (pc = "done" /\ NoOwnership) =>
       /\ VoiceEntries(result.changeLog) = {}
       /\ WithheldSuggestions(result.suggestions) = {}

\* C14 witness: a call without owner, with activeVoice and auditSafeMode on,
\* has returned a sentence of the strict patterns unconverted.
C14_Witness ==
  /\ pc = "done"
  /\ options.owner = "" /\ options.clearOwnership
  /\ options.activeVoice /\ options.auditSafeMode
  /\ text = StageSentences[9]
  /\ result.rewrittenText = StageSentences[9] \o "."

\* the participles of the strict patterns and their base verbs
BaseVerbs ==
  << <<"completed", "complete">>, <<"implemented", "implement">>,
     <<"performed", "perform">>, <<"reviewed", "review">>,
     <<"approved", "approve">>, <<"identified", "identify">>,
     <<"documented", "document">> >>

\* s, in lower case, holds from place i on white space, "was" or "were",
\* { "not" } and participle n as a whole word, after a subject of at least
\* one character
StrictAt(s, i, negated, n) ==
  /\ i >= 2
  /\ At(s, i) = " "
  /\ \E aux \in {" was ", " were "} :
       LET lit == aux \o (IF negated THEN "not " ELSE "") \o BaseVerbs[n][1]
       IN /\ StartsWithAt(s, i, lit)
          /\ ~IsWordChar(At(s, i + Len(lit)))

\* the places of s where a strict pattern stands
StrictPlaces(s, negated) ==
  LET places(lower) ==
        {i \in 1..Len(s) : \E n \in 1..Len(BaseVerbs) : StrictAt(lower, i, negated, n)}
  IN places(toLowerCase(s))

MatchesStrict(s, negated) == StrictPlaces(s, negated) # {}

\* the converter's answer for the sentence the loop stands at
Converted ==
  convertPassiveToActiveSafe(sentence, options.owner, options.clearOwnership,
                             options.auditSafeMode)

FirstNegated(s) == Min(StrictPlaces(s, TRUE))

\* the participle of the negated pattern at place i of s
ParticipleAt(s, i) ==
  CHOOSE n \in 1..Len(BaseVerbs) : StrictAt(toLowerCase(s), i, TRUE, n)

\* the tail without a leading "by ..."
TailKept(t) ==
  IF Len(t) >= 4 /\ toLowerCase(Sub(t, 1, 3)) = "by " THEN "" ELSE t

\* "<owner> did not <base-verb> <subject> <tail>" for the negated pattern at
\* place i of s with participle n, the auxiliary being "was" or "were"
DidNotForm(s, i, n, owner) ==
  LET aux == IF toLowerCase(Sub(s, i, i + 4)) = " was " THEN 5 ELSE 6
      tail == TailKept(trim(Rest(s, i + aux + 4 + Len(BaseVerbs[n][1]))))
  IN owner \o " did not " \o BaseVerbs[n][2] \o " " \o trim(Sub(s, 1, i - 1))
       \o (IF tail = "" THEN "" ELSE " " \o tail)

\* s begins with the affirmative form "<owner> <participle> "
AffirmativeForm(s, owner) ==
  \E n \in 1..Len(BaseVerbs) :
     Sub(s, 1, Len(owner) + Len(BaseVerbs[n][1]) + 2)
       = owner \o " " \o BaseVerbs[n][1] \o " "

PathSpans(s) ==
  {Sub(s, i, j) : <<i, j>> \in
     {p \in (1..Len(s)) \X (1..Len(s)) :
        /\ At(s, p[1]) = "/"
        /\ p[1] = 1 \/ IsSpace(At(s, p[1] - 1))
        /\ p[2] > p[1]
        /\ \A k \in p[1]..p[2] : ~IsSpace(At(s, k))
        /\ IsWordChar(At(s, p[2]))
        /\ \A k \in (p[2] + 1)..Len(s) :
             IsWordChar(At(s, k)) => \E h \in p[2]..k : IsSpace(At(s, h))}}

\* C17: spelling stage skips protected spans: for a sentence handed to the
\* spelling stage and either target variant, every protected span (what the
\* extractor marks, and a POSIX absolute path from its first "/" on, at the
\* start of the sentence or after white space) stands unchanged in the
\* sentence the stage leaves, so no dictionary term inside it is rewritten,
\* in the first path segment either.
C17_ProtectedSkipped ==
  (AtStage("spelling") /\ options.standardiseSpelling) =>
    \A span \in PathSpans(sentence) \cup ProtectedSpans(sentence) :
       includes(spellingStage(Current, options).sentence, span)

\* the source phrases of the vocabulary map that s holds, as plain
\* substrings and without regard to case
PhrasesIn(s) ==
  {k \in 1..Len(vocabularyMap) : includes(toLowerCase(s), vocabularyMap[k][1])}

\* the entries of a change log that are of type "clarity" and name phrase k
ClarityEntries(log, k) ==
  {e \in 1..Len(log) :
     /\ log[e].type = "clarity"
     /\ includes(log[e].description, "\"" \o vocabularyMap[k][1] \o "\"")}

\* C18: vocabulary substitution: the vocabulary stage leaves no occurrence of
\* a source phrase the sentence held, adds exactly one "clarity" entry for
\* each distinct phrase the sentence held and no other entry, and leaves a
\* sentence that holds none of the phrases, and the change log, as they are.
C18_VocabularySubstitution ==
  AtStage("vocabulary") =>
    LET out == vocabularyStage(Current)
    IN /\ \A k \in PhrasesIn(sentence) :
            /\ ~includes(toLowerCase(out.sentence), vocabularyMap[k][1])
            /\ Cardinality(ClarityEntries(out.changeLog, k))
                 = Cardinality(ClarityEntries(changeLog, k)) + 1
       /\ Len(out.changeLog) = Len(changeLog) + Cardinality(PhrasesIn(sentence))
       /\ PhrasesIn(sentence) = {} => out = Current
       /\ out.suggestions = suggestions

\* the filler openers s begins with, without regard to case
OpenersAt(s) ==
  {k \in 1..Len(fillerOpeners) :
     toLowerCase(Sub(s, 1, Len(fillerOpeners[k]))) = toLowerCase(fillerOpeners[k])}

\* s without its first n characters and the white space after them
WithoutOpener(s, n) == Rest(s, RunEnd(s, n + 1, SpaceSet) + 1)

\* C19: filler-opener stripping: with concise on, a sentence that begins with
\* a filler opener, white space after it or not, leaves the concise stage
\* without the first such opener of the list and the white space after it,
\* and with exactly one more entry, of type "concision"; nothing else is
\* removed, so a second opener and an opener further on stay; a sentence
\* that does not begin with an opener, and every sentence with concise off,
\* is left as it is.
C19_FillerOpenerStripped ==
  AtStage("concise") =>
    LET out == conciseStage(Current, options)
        openers == OpenersAt(sentence)
    IN IF options.concise /\ openers # {}
       THEN /\ out.sentence
                 = WithoutOpener(sentence, Len(fillerOpeners[Min(openers)]))
            /\ Len(out.changeLog) = Len(changeLog) + 1
            /\ out.changeLog[Len(out.changeLog)].type = "concision"
            /\ SubSeq(out.changeLog, 1, Len(changeLog)) = changeLog
            /\ out.suggestions = suggestions
       ELSE out = Current

\* the hedging terms, in the order of the list
HedgingTerms ==
  << "may", "could", "might", "potentially", "appears to", "seems to",
     "generally", "possibly" >>

\* the terms k.. of the list that lower holds, each with ", " before it
RECURSIVE NamedTerms(_, _)
NamedTerms(lower, k) ==
  IF k > Len(HedgingTerms) THEN ""
  ELSE (IF includes(lower, HedgingTerms[k]) THEN ", " \o HedgingTerms[k] ELSE "")
         \o NamedTerms(lower, k + 1)

\* C20: qualifier-hint detection: for the sentence as the spelling stage left
\* it and every option setting, the qualifier stage appends exactly one
\* suggestion if the sentence holds a hedging term as a substring, without
\* regard to case, and that suggestion names all the terms it holds in the
\* order of the list; it appends none if the sentence holds no term; it
\* leaves the sentence and the change log as they are.
C20_QualifierHints ==
  AtStage("qualifier") =>
    LET out == qualifierStage(Current)
        named == NamedTerms(toLowerCase(sentence), 1)
    IN /\ out.sentence = sentence
       /\ out.changeLog = changeLog
       /\ Len(out.suggestions) = Len(suggestions) + (IF named = "" THEN 0 ELSE 1)
       /\ SubSeq(out.suggestions, 1, Len(suggestions)) = suggestions
       /\ named # "" =>
            includes(out.suggestions[Len(out.suggestions)],
                     "Qualification detected (" \o Rest(named, 3) \o ")")

\* C20 witness: the qualifier stage has run on a sentence with three hedging
\* terms, out of list order and in mixed case, and its one suggestion names
\* them in list order.
C20_Witness ==
  /\ AtStage("voice")
  /\ sentence = StageSentences[12]
  /\ suggestions # <<>>
  /\ includes(suggestions[Len(suggestions)], "(may, could, possibly)")

\* the cue words of the impact stage
CueWords == {"risk", "impact", "result", "consequence"}

\* the suggestions that ask for the impact
ImpactSuggestions(sugg) ==
  {k \in 1..Len(sugg) : includes(sugg[k], "Consider adding impact")}

\* the impact suggestion is due for the sentence the loop stands at
ImpactDue ==
  /\ options.sharperImpact
  /\ options.documentType = "audit-finding"
  /\ \A w \in CueWords : ~includes(toLowerCase(sentence), w)

\* C21: impact-suggestion condition: the impact stage appends the
\* suggestion "Consider adding impact ..." for the sentence as the voice
\* stage left it if and only if sharperImpact is on, documentType is
\* "audit-finding" and the sentence holds none of risk, impact, result,
\* consequence as a substring, without regard to case; it appends nothing
\* else, so for the four other document types and with sharperImpact off no
\* suggestion is made.
C21_ImpactCondition ==
  AtStage("impact") =>
    LET out == impactStage(Current, options)
    IN /\ Len(out.suggestions) = Len(suggestions) + (IF ImpactDue THEN 1 ELSE 0)
       /\ SubSeq(out.suggestions, 1, Len(suggestions)) = suggestions
       /\ ImpactSuggestions(out.suggestions)
            = ImpactSuggestions(suggestions)
                \cup (IF ImpactDue THEN {Len(suggestions) + 1} ELSE {})

\* C21 witness: for the document type "audit-finding" and with sharperImpact
\* on, the impact stage has run on a sentence with a cue word in capitals
\* and has suggested nothing.
C21_Witness ==
  /\ AtStage("style")
  /\ options.sharperImpact /\ options.documentType = "audit-finding"
  /\ sentence = "The RESULT is late"
  /\ ImpactSuggestions(suggestions) = {}

\* s with the one split of the style heuristic: the first ", and " made
\* ". ", or, when s holds no ", and ", the first ", which " made ". This "
OneSplit(s) ==
  IF includes(toLowerCase(s), ", and ") THEN replaceFirstCI(s, ", and ", ". ")
  ELSE replaceFirstCI(s, ", which ", ". This ")

\* the examples of the call that are active
ActiveExamples == SelectSeq(styleExamples, LAMBDA e : e.isActive)

\* C22: single style split: the style stage leaves the sentence as it is or
\* with exactly one replacement, the first ", and " made ". " or, only when
\* the sentence holds no ", and ", the first ", which " made ". This "; a
\* sentence of 22 words or fewer, and every sentence of a call without an
\* active example, is left as it is; the change log and the suggestions are
\* not touched.
C22_SingleSplit ==
  AtStage("style") =>
    LET out == styleStage(Current, styleExamples)
    IN /\ out.sentence \in {sentence, OneSplit(sentence)}
       /\ (wordCount(sentence) <= 22 \/ Len(ActiveExamples) = 0)
            => out.sentence = sentence
       /\ out.changeLog = changeLog /\ out.suggestions = suggestions

\* the types of the entries, in the order of the stages that log them
LogTypes == << "concision", "clarity", "spelling", "voice" >>

TypeRank(type) == CHOOSE r \in 1..Len(LogTypes) : LogTypes[r] = type

\* the phrase of the vocabulary table a "clarity" entry names
PhraseRank(entry) ==
  CHOOSE k \in 1..Len(vocabularyMap) :
     includes(entry.description, "\"" \o vocabularyMap[k][1] \o "\" with")

\* the entries sentence s gets on its own
SentenceLog(s) ==
  voiceStage(
    spellingStage(
      vocabularyStage(
        conciseStage([sentence |-> s, changeLog |-> <<>>, suggestions |-> <<>>],
                     options)),
      options),
    options).changeLog

\* the entries of the sentences k.. of sents, one sentence after the other
RECURSIVE SentenceLogs(_, _)
SentenceLogs(sents, k) ==
  IF k > Len(sents) THEN <<>>
  ELSE SentenceLog(sents[k]) \o SentenceLogs(sents, k + 1)

\* the entries of the paragraphs b.. of the text, in document order
RECURSIVE BlockLogs(_, _)
BlockLogs(paragraphs, b) ==
  IF b > Len(paragraphs) THEN <<>>
  ELSE SentenceLogs(splitSentences(normaliseSpacing(trim(paragraphs[b]))), 1)
         \o BlockLogs(paragraphs, b + 1)

\* log is in the order of the stages, its clarity entries in table order
InStageOrder(log) ==
  \A i, j \in 1..Len(log) :
     i < j =>
       /\ TypeRank(log[i].type) <= TypeRank(log[j].type)
       /\ (log[i].type = "clarity" /\ log[j].type = "clarity")
            => PhraseRank(log[i]) < PhraseRank(log[j])

\* the type of the entries the stage that runs next may log, "" for none
StageType ==
  CASE stage = "concise" -> "concision"
    [] stage = "vocabulary" -> "clarity"
    [] stage = "spelling" -> "spelling"
    [] stage = "voice" -> "voice"
    [] OTHER -> ""

\* a step keeps the entries logged so far and adds only entries of the type
\* of the stage that takes it
LogGrows ==
  /\ Len(changeLog') >= Len(changeLog)
  /\ SubSeq(changeLog', 1, Len(changeLog)) = changeLog
  /\ \A k \in (Len(changeLog) + 1)..Len(changeLog') :
       pc = "sentence" /\ changeLog'[k].type = StageType

\* C23: change-log ordering: the change log only grows, every step adding
\* entries of the type of its stage at the end; the log returned is the
\* entries of the first sentence, then those of the second, and so on
\* through the paragraphs in document order, no entry dropped for being a
\* repeat and none cut off; the entries of one sentence stand in the order
\* concision, clarity (in the order of the vocabulary table), spelling,
\* voice, and no entry has another type.
C23_ChangeLogOrdering ==
  /\ [][LogGrows]_vars
  /\ [](\A k \in 1..Len(changeLog) : changeLog[k].type \in Range(LogTypes))
  /\ [](AtStage("impact") => InStageOrder(SentenceLog(sentences[si])))
  /\ [](pc = "done" => result.changeLog = BlockLogs(splitParagraphs(text), 1))

\* C23 witness: the call on the log text has returned the same "in order to"
\* entry three times, once for each of its sentences, after the concision
\* entry of the first sentence and before the voice entry of the last.
C23_Witness ==
  /\ pc = "done"
  /\ text = LogText
  /\ Cardinality({k \in 1..Len(result.changeLog) :
                    result.changeLog[k]
                      = Change("clarity", "Replaced \"in order to\" with \"to\"")}) = 3
  /\ result.changeLog[1].type = "concision"
  /\ result.changeLog[Len(result.changeLog)].type = "voice"

\* the five document types
AllDocumentTypes ==
  {"audit-finding", "executive-summary", "status-update", "email-senior",
   "risk-description"}

\* the call returned what the call with options opts returns, as far as the
\* text and the change log go
SameRewriting(opts) ==
  LET other == rewrite(text, opts, styleExamples)
  IN /\ other.rewrittenText = result.rewrittenText
     /\ other.changeLog = result.changeLog

\* the calls that differ from the one made in calmTone only, or in
\* documentType only, return the same text and change log
ToneAndTypeNoGate ==
  /\ SameRewriting([options EXCEPT !.calmTone = ~@])
  /\ \A d \in AllDocumentTypes \ {options.documentType} :
       SameRewriting([options EXCEPT !.documentType = d])

\* sugg without the suggestions that say the conversion was withheld
NotWithheld(sugg) ==
  SelectSeq(sugg, LAMBDA x : ~includes(x, "Active voice not applied"))

\* the suggestions the call with auditSafeMode on collects, before they are
\* deduplicated and cut: those of the call made, or of its twin
CollectedOn ==
  IF options.auditSafeMode THEN suggestions
  ELSE rewriteBlocks(splitParagraphs(text), 1,
                     [rewrittenBlocks |-> <<>>, changeLog |-> <<>>,
                      suggestions |-> detectMixedVariant(text)],
                     [options EXCEPT !.auditSafeMode = TRUE],
                     styleExamples).suggestions

\* the stages that are handed the options
OptionStages == {"concise", "spelling", "voice", "impact"}

\* what the stage that runs next, one of those four, leaves under options
\* opts
StageOut(opts) ==
  CASE stage = "concise" -> conciseStage(Current, opts)
    [] stage = "spelling" -> spellingStage(Current, opts)
    [] stage = "voice" -> voiceStage(Current, opts)
    [] OTHER -> impactStage(Current, opts)

\* the options that differ from those of the call in auditSafeMode only, in
\* calmTone only or in documentType only
Twins ==
  {[options EXCEPT !.auditSafeMode = ~@], [options EXCEPT !.calmTone = ~@]}
    \cup {[options EXCEPT !.documentType = d] :
            d \in AllDocumentTypes \ {options.documentType}}

\* C24, as stated: two calls that differ only in auditSafeMode, only in
\* calmTone or only in documentType return the same rewrittenText and the
\* same changeLog, and the suggestions returned with auditSafeMode on and
\* off differ at most in the "Active voice not applied" suggestion.
C24_AsStated ==
  pc = "done" =>
    /\ SameRewriting([options EXCEPT !.auditSafeMode = ~@])
    /\ ToneAndTypeNoGate
    /\ NotWithheld(rewrite(text, [options EXCEPT !.auditSafeMode = ~@],
                           styleExamples).suggestions)
         = NotWithheld(result.suggestions)

\* C24, amended: every stage that reads the options leaves the same sentence
\* and the same change log under options that differ only in auditSafeMode,
\* only in calmTone or only in documentType, and the calls with
\* auditSafeMode on and off return the same rewrittenText and the same
\* changeLog; the suggestions differ at most in the "Active voice not
\* applied" suggestion before they are cut:
\* the call with auditSafeMode off returns the first 12 of the deduplicated
\* suggestions of the call with auditSafeMode on without that suggestion.
C24_AuditSafeNoGate ==
  /\ (pc = "sentence" /\ si <= Len(sentences) /\ stage \in OptionStages) =>
       LET own == StageOut(options)
           same(out) == out.sentence = own.sentence /\ out.changeLog = own.changeLog
       IN \A twin \in Twins : same(StageOut(twin))
  /\ pc = "done" =>
       LET other == rewrite(text, [options EXCEPT !.auditSafeMode = ~@], styleExamples)
           off == IF options.auditSafeMode THEN other ELSE result
       IN /\ other.rewrittenText = result.rewrittenText
          /\ other.changeLog = result.changeLog
          /\ off.suggestions
               = slice(NotWithheld(dedupe(CollectedOn)), SuggestionCap)

\* C24 witness: a call with auditSafeMode off has returned a sentence
\* converted to the active voice, as the call with auditSafeMode on does.
C24_Witness ==
  /\ pc = "done"
  /\ ~options.auditSafeMode /\ options.activeVoice
  /\ text = "Access reviews were completed quarterly."
  /\ result.rewrittenText = "Operations completed Access reviews quarterly."
  /\ VoiceEntries(result.changeLog) # {}
  /\ rewrite(text, [options EXCEPT !.auditSafeMode = TRUE], styleExamples).rewrittenText
       = result.rewrittenText

\* s without its white space
NonSpace(s) ==
  Concat([i \in 1..Len(s) |-> IF IsSpace(At(s, i)) THEN "" ELSE At(s, i)])

\* the characters of a from place i on stand in b from place j on, in the
\* same order
RECURSIVE SubsequenceFrom(_, _, _, _)
SubsequenceFrom(a, i, b, j) ==
  IF i > Len(a) THEN TRUE
  ELSE LET hits == {k \in j..Len(b) : At(b, k) = At(a, i)}
       IN IF hits = {} THEN FALSE
          ELSE SubsequenceFrom(a, i + 1, b, Min(hits) + 1)

\* C25: segmentation loses no content: the sentences of a paragraph, put
\* together in order, are the spacing-normalised paragraph but for white
\* space, terminator characters at the very start of the paragraph
\* included; so with every option off the characters of the input other
\* than white space stand in rewrittenText in the same order, without
\* regard to case.
C25_SegmentationKeepsContent ==
  /\ (pc = "sentence" /\ bi <= Len(blocks)) =>
       NonSpace(Concat(sentences))
         = NonSpace(normaliseSpacing(trim(blocks[bi])))
  /\ (pc = "done" /\ options = PlainOptions) =>
       SubsequenceFrom(toLowerCase(NonSpace(text)), 1,
                       toLowerCase(NonSpace(result.rewrittenText)), 1)

\* the examples of a library that are active
ActiveIn(library) == {id \in Ids : library[id] = "on"}

\* C26: at most three active style anchors: after any sequence of the
\* shell's operations from an empty library, two toggles before a render
\* included, at most 3 examples are active in the list of the component and
\* at most 3 in the stored examples.
C26_AtMostThreeActive ==
  /\ Cardinality(ActiveIn(listed)) <= 3
  /\ Cardinality(ActiveIn(stored)) <= 3

====
